---- MODULE Spec2Model ----
(***************************************************************************)
(* Model of the BlockTrader decision-and-ledger engine.                    *)
(*                                                                         *)
(*   wallet.py       Currency / Account / Wallet  (the ledger)             *)
(*   trading_bot.py  TradingBot (price buffers, signal, order placement)   *)
(*   config.py       ConfigManager.place_spot_order (simulated fill)       *)
(*                                                                         *)
(* Python dicts keep insertion order, so a dict is a sequence of records   *)
(* keyed by one field.  Amounts, prices and balances are integers: the     *)
(* model is exact arithmetic, it does not model float rounding.            *)
(* Timestamps (datetime.now()) are left out of the history tuples.         *)
(***************************************************************************)
EXTENDS Integers, Sequences, FiniteSets, TLC

(***************************************************************************)
(* Bounds                                                                  *)
(***************************************************************************)
\* number of calls in a run of trades, price updates and balance settings
MaxSteps == 3
\* number of calls in a run of transfers
MaxTransferSteps == 2
\* number of calls in a run of valuations
MaxTotalSteps == 2
\* number of calls in a run of price-buffer updates and signal evaluations
MaxRingCalls == 4
\* number of calls in a run that fills one buffer and evaluates the signal
MaxSignalCalls == 6
\* number of order placements in a run
MaxPlacements == 3

(***************************************************************************)
(* Input sets                                                              *)
(***************************************************************************)
AccountTypes == {"trading", "main"}
Symbols == {"USDT", "BTC"}
InitBalances == {2}
TradeAmounts == {1, 2}
TradePrices == {2}
TradeTypes == {"buy", "sell"}
TransferAmounts == {-2, 0, 1, 3}
OverdraftAmounts == {3}
NewBalances == {1}
LedgerPrices == {3}
TickerPrices == {3}
\* trading pairs the bot is run on
BotSymbols == {"BTC-USDT", "ETH-USDT"}
\* configured chart_config.history_length, scaled down from the default 120
RingLengths == {2, 3}
SignalLengths == {5}
RingPrices == {1, 3}
RingCurrentPrices == {1, 2}
SignalPrices == {98, 99, 100, 101, 102}
SignalCurrentPrices == {97, 99, 100}
\* configured max_total_orders
OrderLimits == {1, 2}
BuyAmountsUsdt == {100}
LimitPrices == {0, 50}
SellAmounts == {2}
SellPrices == {51}
AvailableBalances == {0, 1000}

VARIABLES
    accounts,              \* Wallet.accounts: sequence of Account records
    initialBalance,        \* history: balance of (account, symbol) when it was last set other than by a trade on it
    PRICE_HISTORY_LENGTH,  \* TradingBot.PRICE_HISTORY_LENGTH
    price_history,         \* TradingBot.price_history: symbol -> deque of prices
    pushed,                \* history: every price appended to a symbol's deque, in order
    active_orders,         \* TradingBot.active_orders: symbol -> list of orders
    active_trades,         \* TradingBot.active_trades: order id -> trade
    is_simulation,         \* TradingBot.is_simulation
    max_total_orders,      \* TradingBot.max_total_orders
    order_seq,             \* number of order identifiers the exchange has issued
    status_history,        \* TradingBot.status_history: list of status snapshots
    status_seq,            \* history: number of snapshots built so far (the clock of their timestamps)
    total_trades,          \* TradingBot.total_trades
    profits,               \* the wallet's realized profit: symbol -> amount
    profit_calls,          \* history: number of update_profit calls that returned
    symbol_allocations,    \* TradingBot.symbol_allocations: symbol -> USDT amount
    currency_allocations,  \* TradingBot.currency_allocations: symbol -> weight
    profit_margin,         \* TradingBot.profit_margin, in thousandths
    maker_fee,             \* TradingBot.maker_fee, in thousandths
    taker_fee,             \* TradingBot.taker_fee, in thousandths
    threads,               \* the calls in progress in the trading thread and in the status loop
    last,                  \* history: the last call, its arguments and its return value
    budget                 \* number of calls the run may still make

ledgerState == <<accounts, initialBalance>>
signalState == <<PRICE_HISTORY_LENGTH, price_history, pushed>>
orderState == <<active_orders, active_trades, is_simulation, max_total_orders, order_seq>>
statusState == <<status_history, status_seq, total_trades>>
profitState == <<profits, profit_calls>>
allocationState == <<symbol_allocations, currency_allocations>>
pricingState == <<profit_margin, maker_fee, taker_fee>>
vars == <<accounts, initialBalance, PRICE_HISTORY_LENGTH, price_history, pushed, active_orders,
          active_trades, is_simulation, max_total_orders, order_seq, status_history, status_seq,
          total_trades, profits, profit_calls, symbol_allocations, currency_allocations, profit_margin, maker_fee,
          taker_fee, threads, last, budget>>

(***************************************************************************)
(* Generic helpers                                                         *)
(***************************************************************************)
None == <<>>
Some(x) == <<x>>

RECURSIVE SumAmounts(_)
\* sum of the amount component of a buy/sell history
SumAmounts(h) == IF h = <<>> THEN 0 ELSE h[1][1] + SumAmounts(Tail(h))

(***************************************************************************)
(* wallet.py : Currency                                                    *)
(***************************************************************************)
Currency(symbol, balance) ==
    [symbol |-> symbol, balance |-> balance, price_history |-> <<>>,
     buy_history |-> <<>>, sell_history |-> <<>>, current_price |-> None]

Currency_update_price(c, price) ==
    [c EXCEPT !.price_history = Append(@, price), !.current_price = Some(price)]

\* variant: a sell credits the balance instead of debiting it
Currency_record_trade_SellCredits(c, amount, price, trade_type) ==
    IF trade_type = "buy"
    THEN [c EXCEPT !.buy_history = Append(@, <<amount, price>>), !.balance = @ + amount]
    ELSE IF trade_type = "sell"
    THEN [c EXCEPT !.sell_history = Append(@, <<amount, price>>), !.balance = @ + amount]
    ELSE c

Currency_record_trade(c, amount, price, trade_type) ==
    IF trade_type = "buy"
    THEN [c EXCEPT !.buy_history = Append(@, <<amount, price>>), !.balance = @ + amount]
    ELSE IF trade_type = "sell"
    THEN [c EXCEPT !.sell_history = Append(@, <<amount, price>>), !.balance = @ - amount]
    ELSE c

(***************************************************************************)
(* wallet.py : Account                                                     *)
(***************************************************************************)
Account(account_type, currencies) ==
    [account_type |-> account_type, currencies |-> currencies]

\* position of symbol in account.currencies, 0 when absent
CurrencyIndex(acc, symbol) ==
    IF \E i \in 1..Len(acc.currencies) : acc.currencies[i].symbol = symbol
    THEN CHOOSE i \in 1..Len(acc.currencies) : acc.currencies[i].symbol = symbol
    ELSE 0

Account_add_currency(acc, symbol, balance) ==
    IF CurrencyIndex(acc, symbol) = 0
    THEN [acc EXCEPT !.currencies = Append(@, Currency(symbol, balance))]
    ELSE acc

Account_get_currency_balance(acc, symbol) ==
    IF CurrencyIndex(acc, symbol) = 0
    THEN Currency(symbol, 0).balance
    ELSE acc.currencies[CurrencyIndex(acc, symbol)].balance

Account_update_currency_balance(acc, symbol, new_balance) ==
    IF CurrencyIndex(acc, symbol) = 0
    THEN Account_add_currency(acc, symbol, new_balance)
    ELSE [acc EXCEPT !.currencies[CurrencyIndex(acc, symbol)].balance = new_balance]

\* variant: an unknown symbol is created, as update_currency_balance does
Account_update_currency_price_Creates(acc, symbol, price) ==
    LET a1 == Account_add_currency(acc, symbol, 0)
    IN  [a1 EXCEPT !.currencies[CurrencyIndex(a1, symbol)] = Currency_update_price(@, price)]

Account_update_currency_price(acc, symbol, price) ==
    IF CurrencyIndex(acc, symbol) # 0
    THEN [acc EXCEPT !.currencies[CurrencyIndex(acc, symbol)] = Currency_update_price(@, price)]
    ELSE acc

(***************************************************************************)
(* wallet.py : Wallet (w is the value of Wallet.accounts)                  *)
(***************************************************************************)
\* position of account_type in wallet.accounts, 0 when absent
AccountIndex(w, account_type) ==
    IF \E i \in 1..Len(w) : w[i].account_type = account_type
    THEN CHOOSE i \in 1..Len(w) : w[i].account_type = account_type
    ELSE 0

Wallet_add_account(w, account_type) ==
    IF AccountIndex(w, account_type) = 0
    THEN Append(w, Account(account_type, <<>>))
    ELSE w

Wallet_update_account_balance(w, account_type, symbol, new_balance) ==
    LET w1 == IF AccountIndex(w, account_type) = 0 THEN Wallet_add_account(w, account_type) ELSE w
        i == AccountIndex(w1, account_type)
    IN  [w1 EXCEPT ![i] = Account_update_currency_balance(@, symbol, new_balance)]

Wallet_update_currency_price(w, account_type, symbol, price) ==
    IF AccountIndex(w, account_type) # 0
    THEN [w EXCEPT ![AccountIndex(w, account_type)] = Account_update_currency_price(@, symbol, price)]
    ELSE w

Wallet_get_currency_balance(w, account_type, symbol) ==
    IF AccountIndex(w, account_type) # 0
    THEN Account_get_currency_balance(w[AccountIndex(w, account_type)], symbol)
    ELSE 0

\* the guard of Wallet.record_trade: the account exists and holds the symbol
HasCurrency(w, account_type, symbol) ==
    /\ AccountIndex(w, account_type) # 0
    /\ CurrencyIndex(w[AccountIndex(w, account_type)], symbol) # 0

\* the Currency object of (account_type, symbol); only used under HasCurrency
CurrencyOf(w, account_type, symbol) ==
    w[AccountIndex(w, account_type)].currencies[CurrencyIndex(w[AccountIndex(w, account_type)], symbol)]

\* variant: a missing account or symbol is created before the trade is applied
Wallet_record_trade_Creates(w, account_type, symbol, amount, price, trade_type) ==
    LET w0 == IF HasCurrency(w, account_type, symbol) THEN w
              ELSE Wallet_update_account_balance(w, account_type, symbol, 0)
        i == AccountIndex(w0, account_type)
        j == CurrencyIndex(w0[i], symbol)
        w1 == [w0 EXCEPT ![i].currencies[j] = Currency_record_trade(@, amount, price, trade_type)]
        usdt_amount == amount * price
    IN  IF trade_type = "buy"
        THEN Wallet_update_account_balance(w1, account_type, "USDT",
                 Wallet_get_currency_balance(w1, account_type, "USDT") - usdt_amount)
        ELSE IF trade_type = "sell"
        THEN Wallet_update_account_balance(w1, account_type, "USDT",
                 Wallet_get_currency_balance(w1, account_type, "USDT") + usdt_amount)
        ELSE w1

\* variant: the USDT leg has the same sign for a buy and a sell
Wallet_record_trade_BuyCredits(w, account_type, symbol, amount, price, trade_type) ==
    IF HasCurrency(w, account_type, symbol)
    THEN LET i == AccountIndex(w, account_type)
             j == CurrencyIndex(w[i], symbol)
             w1 == [w EXCEPT ![i].currencies[j] = Currency_record_trade(@, amount, price, trade_type)]
             usdt_amount == amount * price
         IN  Wallet_update_account_balance(w1, account_type, "USDT",
                 Wallet_get_currency_balance(w1, account_type, "USDT") + usdt_amount)
    ELSE w

Wallet_record_trade(w, account_type, symbol, amount, price, trade_type) ==
    IF HasCurrency(w, account_type, symbol)
    THEN LET i == AccountIndex(w, account_type)
             j == CurrencyIndex(w[i], symbol)
             w1 == [w EXCEPT ![i].currencies[j] = Currency_record_trade(@, amount, price, trade_type)]
             usdt_amount == amount * price
         IN  IF trade_type = "buy"
             THEN Wallet_update_account_balance(w1, account_type, "USDT",
                      Wallet_get_currency_balance(w1, account_type, "USDT") - usdt_amount)
             ELSE IF trade_type = "sell"
             THEN Wallet_update_account_balance(w1, account_type, "USDT",
                      Wallet_get_currency_balance(w1, account_type, "USDT") + usdt_amount)
             ELSE w1
    ELSE w

\* returns [accounts, result]
Wallet_transfer_between_accounts(w, from_account, to_account, symbol, amount) ==
    LET f == AccountIndex(w, from_account)
        t == AccountIndex(w, to_account)
    IN  IF f # 0 /\ t # 0
        THEN IF Account_get_currency_balance(w[f], symbol) >= amount
             THEN LET w1 == [w EXCEPT ![f] = Account_update_currency_balance(@, symbol,
                                      Account_get_currency_balance(w[f], symbol) - amount)]
                      w2 == [w1 EXCEPT ![t] = Account_update_currency_balance(@, symbol,
                                      Account_get_currency_balance(w1[t], symbol) + amount)]
                  IN  [accounts |-> w2, result |-> TRUE]
             ELSE [accounts |-> w, result |-> FALSE]
        ELSE [accounts |-> w, result |-> FALSE]

Wallet_update_wallet_state(w, account_type, symbol, amount, price, trade_type) ==
    Wallet_update_currency_price(
        Wallet_record_trade(w, account_type, symbol, amount, price, trade_type),
        account_type, symbol, price)

RECURSIVE AllCurrencies(_)
\* the currencies in the order the nested loops of get_total_balance_in_usdt visit them
AllCurrencies(w) ==
    IF w = <<>> THEN <<>> ELSE w[1].currencies \o AllCurrencies(Tail(w))

RECURSIVE SumUntilFailure(_, _, _, _)
\* the loop body over the remaining currencies cs with total_usdt so far; an
\* exception raised by get_ticker leaves the loop through the enclosing try
SumUntilFailure(cs, total_usdt, failing, ticker_price) ==
    IF cs = <<>> THEN total_usdt
    ELSE IF cs[1].symbol = "USDT"
         THEN SumUntilFailure(Tail(cs), total_usdt + cs[1].balance, failing, ticker_price)
         ELSE IF cs[1].symbol \in failing
              THEN total_usdt
              ELSE SumUntilFailure(Tail(cs), total_usdt + cs[1].balance * ticker_price,
                                   failing, ticker_price)

\* failing: the symbols whose ticker fetch raises; ticker_price: the price of the others
Wallet_get_total_balance_in_usdt(w, failing, ticker_price) ==
    SumUntilFailure(AllCurrencies(w), 0, failing, ticker_price)

(***************************************************************************)
(* Ledger state machine: one Wallet driven by its public methods           *)
(***************************************************************************)
NoCall ==
    [op |-> "none", account |-> "", to |-> "", symbol |-> "", amount |-> 0, price |-> 0,
     side |-> "", ok |-> FALSE, failing |-> {}, total |-> 0]

\* Account(account_type, currencies) as the constructor accepts it: distinct
\* symbols, fresh Currency objects
InitAccounts(t) ==
    {Account(t, <<>>)}
    \cup {Account(t, <<Currency(s, b)>>) : s \in Symbols, b \in InitBalances}
    \cup {Account(t, <<Currency(p[1], b1), Currency(p[2], b2)>>) :
              p \in {q \in Symbols \X Symbols : q[1] # q[2]}, b1 \in InitBalances, b2 \in InitBalances}

\* Wallet(accounts) as the constructor accepts it
InitWallets ==
    {<<>>}
    \cup {<<a>> : a \in UNION {InitAccounts(t) : t \in AccountTypes}}
    \cup {<<a, b>> : a \in InitAccounts("trading"), b \in InitAccounts("main")}
    \cup {<<b, a>> : a \in InitAccounts("trading"), b \in InitAccounts("main")}

\* balance minus the net amount traded, for a currency that exists; 0 otherwise
BalanceLessTrades(w, t, s) ==
    IF HasCurrency(w, t, s)
    THEN CurrencyOf(w, t, s).balance
         - (SumAmounts(CurrencyOf(w, t, s).buy_history) - SumAmounts(CurrencyOf(w, t, s).sell_history))
    ELSE 0

\* initialBalance after a call that set the balances of the pairs in reset
\* directly (w1 is the wallet after the call)
Rebased(w1, reset) ==
    [q \in AccountTypes \X Symbols |->
        IF q \in reset THEN BalanceLessTrades(w1, q[1], q[2]) ELSE initialBalance[q]]

\* no call is in progress; stable is the pair <<active_trades, order counts>> the bot
\* had when the trading thread was last between two calls
NoThreads ==
    [trader |-> [pc |-> "idle"], status |-> [pc |-> "idle"],
     stable |-> <<<<>>, <<>>>>, moments |-> {}]

\* the status, allocation and pricing attributes of a TradingBot as its constructor
\* leaves them (trading_bot.py:25-39); the rates are config values in thousandths:
\* profit_margin 0.01 (config.py:14), maker and taker fee 0.001
BotAttributes ==
    /\ status_history = <<>>
    /\ status_seq = 0
    /\ total_trades = 0
    /\ profits = <<>>
    /\ profit_calls = 0
    /\ threads = NoThreads
    /\ symbol_allocations = <<>>
    /\ currency_allocations = <<>>
    /\ profit_margin = 10
    /\ maker_fee = 1
    /\ taker_fee = 1

\* a TradingBot as its constructor leaves it (trading_bot.py:21-39)
BotConstructed ==
    /\ BotAttributes
    /\ price_history = <<>>
    /\ pushed = <<>>
    /\ active_orders = <<>>
    /\ active_trades = <<>>
    /\ is_simulation = FALSE
    /\ order_seq = 0

InitLedger ==
    /\ accounts \in InitWallets
    /\ initialBalance = [q \in AccountTypes \X Symbols |-> Wallet_get_currency_balance(accounts, q[1], q[2])]
    /\ last = NoCall
    /\ BotConstructed
    \* no bot acts in the ledger runs: the default history_length (config.py:23)
    \* and a limit of one order
    /\ PRICE_HISTORY_LENGTH = 120
    /\ max_total_orders = 1

add_account(account_type) ==
    /\ budget > 0
    /\ accounts' = Wallet_add_account(accounts, account_type)
    /\ last' = [NoCall EXCEPT !.op = "add_account", !.account = account_type]
    /\ budget' = budget - 1
    /\ UNCHANGED <<statusState, profitState, allocationState, pricingState, threads, initialBalance, signalState, orderState>>

update_account_balance(account_type, symbol, new_balance) ==
    /\ budget > 0
    /\ accounts' = Wallet_update_account_balance(accounts, account_type, symbol, new_balance)
    /\ initialBalance' = Rebased(accounts', {<<account_type, symbol>>})
    /\ last' = [NoCall EXCEPT !.op = "update_account_balance", !.account = account_type,
                              !.symbol = symbol, !.amount = new_balance]
    /\ budget' = budget - 1
    /\ UNCHANGED <<statusState, profitState, allocationState, pricingState, threads, signalState, orderState>>

update_currency_price(account_type, symbol, price) ==
    /\ budget > 0
    /\ accounts' = Wallet_update_currency_price(accounts, account_type, symbol, price)
    /\ last' = [NoCall EXCEPT !.op = "update_currency_price", !.account = account_type,
                              !.symbol = symbol, !.price = price]
    /\ budget' = budget - 1
    /\ UNCHANGED <<statusState, profitState, allocationState, pricingState, threads, initialBalance, signalState, orderState>>

record_trade(account_type, symbol, amount, price, trade_type) ==
    /\ budget > 0
    /\ accounts' = Wallet_record_trade(accounts, account_type, symbol, amount, price, trade_type)
    \* the USDT balance of the account is set as a side effect of a trade on another symbol
    /\ initialBalance' = IF HasCurrency(accounts, account_type, symbol) /\ symbol # "USDT"
                         THEN Rebased(accounts', {<<account_type, "USDT">>})
                         ELSE initialBalance
    /\ last' = [NoCall EXCEPT !.op = "record_trade", !.account = account_type, !.symbol = symbol,
                              !.amount = amount, !.price = price, !.side = trade_type,
                              !.ok = HasCurrency(accounts, account_type, symbol)]
    /\ budget' = budget - 1
    /\ UNCHANGED <<statusState, profitState, allocationState, pricingState, threads, signalState, orderState>>

transfer_between_accounts(from_account, to_account, symbol, amount) ==
    LET r == Wallet_transfer_between_accounts(accounts, from_account, to_account, symbol, amount)
    IN  /\ budget > 0
        /\ accounts' = r.accounts
        /\ initialBalance' = IF r.result
                             THEN Rebased(accounts', {<<from_account, symbol>>, <<to_account, symbol>>})
                             ELSE initialBalance
        /\ last' = [NoCall EXCEPT !.op = "transfer_between_accounts", !.account = from_account,
                                  !.to = to_account, !.symbol = symbol, !.amount = amount,
                                  !.ok = r.result]
        /\ budget' = budget - 1
        /\ UNCHANGED <<statusState, profitState, allocationState, pricingState, threads, signalState, orderState>>

get_total_balance_in_usdt(failing, ticker_price) ==
    /\ budget > 0
    /\ last' = [NoCall EXCEPT !.op = "get_total_balance_in_usdt", !.failing = failing,
                              !.price = ticker_price,
                              !.total = Wallet_get_total_balance_in_usdt(accounts, failing, ticker_price)]
    /\ budget' = budget - 1
    /\ UNCHANGED <<statusState, profitState, allocationState, pricingState, threads, ledgerState, signalState, orderState>>

\* trades, price updates and balance settings on one wallet
NextLedger ==
    \/ \E t \in AccountTypes : add_account(t)
    \/ \E t \in AccountTypes, s \in Symbols, b \in NewBalances : update_account_balance(t, s, b)
    \/ \E t \in AccountTypes, s \in Symbols, p \in LedgerPrices : update_currency_price(t, s, p)
    \/ \E t \in AccountTypes, s \in Symbols, a \in TradeAmounts, p \in TradePrices, k \in TradeTypes :
           record_trade(t, s, a, p, k)

InitLedgerSmall ==
    /\ InitLedger
    /\ Len(accounts) <= 1
    /\ budget = MaxSteps

SpecLedger == InitLedgerSmall /\ [][NextLedger]_vars

\* transfers between the accounts of one wallet, after sells that may overdraw
NextTransfer ==
    \/ \E f \in AccountTypes, t \in AccountTypes, s \in Symbols, a \in TransferAmounts :
           transfer_between_accounts(f, t, s, a)
    \/ \E t \in AccountTypes, s \in Symbols, a \in OverdraftAmounts, p \in TradePrices :
           record_trade(t, s, a, p, "sell")

InitTransfer ==
    /\ InitLedger
    /\ budget = MaxTransferSteps

SpecTransfer == InitTransfer /\ [][NextTransfer]_vars

\* valuations of one wallet, with ticker fetches that may fail
NextTotal ==
    \/ \E failing \in SUBSET (Symbols \ {"USDT"}), p \in TickerPrices :
           get_total_balance_in_usdt(failing, p)
    \/ \E t \in AccountTypes, s \in Symbols, b \in NewBalances : update_account_balance(t, s, b)

InitTotal ==
    /\ InitLedger
    /\ budget = MaxTotalSteps

SpecTotal == InitTotal /\ [][NextTotal]_vars

(***************************************************************************)
(* trading_bot.py : price buffers and the buy signal                       *)
(*                                                                         *)
(* A dict is a function on its keys.  A price argument is None or          *)
(* Some(p).  The mean of a buffer is the fraction <<sum, count>>; the      *)
(* comparisons with the mean and the standard deviation are made on        *)
(* cross-multiplied integers, i.e. in exact arithmetic.                    *)
(***************************************************************************)
RECURSIVE Sum(_)
Sum(xs) == IF xs = <<>> THEN 0 ELSE xs[1] + Sum(Tail(xs))

RECURSIVE SumSquaredDeviations(_, _, _)
\* sum of (n*x - total)^2, which is n^2 times the sum of (x - mean)^2
SumSquaredDeviations(xs, n, total) ==
    IF xs = <<>> THEN 0
    ELSE (n * xs[1] - total) * (n * xs[1] - total) + SumSquaredDeviations(Tail(xs), n, total)

\* d[k] = v
DictSet(d, k, v) == [x \in DOMAIN d \cup {k} |-> IF x = k THEN v ELSE d[x]]

\* variant: a full buffer drops the new sample instead of the oldest
deque_append_KeepsOldest(d, x, maxlen) ==
    IF maxlen = 0 THEN d
    ELSE IF Len(d) >= maxlen THEN d
    ELSE Append(d, x)

\* collections.deque(maxlen=maxlen).append(x)
deque_append(d, x, maxlen) ==
    IF maxlen = 0 THEN d
    ELSE IF Len(d) >= maxlen THEN Append(Tail(d), x)
    ELSE Append(d, x)

RECURSIVE update_price_history_loop(_, _, _, _, _, _, _)
\* the loop of update_price_history from position i on: ph is price_history,
\* appended the <<symbol, price>> pairs appended so far.  prices[symbol] raises
\* KeyError for a symbol the dict lacks; the wallet call made for position
\* raise_at raises (raise_at = 0: no wallet call raises).  Either exception
\* leaves the loop; updated counts the wallet calls that returned.
update_price_history_loop(symbols, prices, raise_at, maxlen, i, ph, appended) ==
    IF i > Len(symbols)
    THEN [price_history |-> ph, appended |-> appended, updated |-> Len(appended), raised |-> FALSE]
    ELSE LET symbol == symbols[i]
             ph1 == IF symbol \notin DOMAIN ph THEN DictSet(ph, symbol, <<>>) ELSE ph
         IN  IF symbol \notin DOMAIN prices
             THEN [price_history |-> ph1, appended |-> appended, updated |-> Len(appended), raised |-> TRUE]
             ELSE IF prices[symbol] # None
             THEN LET ph2 == DictSet(ph1, symbol, deque_append(ph1[symbol], prices[symbol][1], maxlen))
                      app2 == Append(appended, <<symbol, prices[symbol][1]>>)
                  IN  IF raise_at = i
                      THEN [price_history |-> ph2, appended |-> app2, updated |-> Len(appended), raised |-> TRUE]
                      ELSE update_price_history_loop(symbols, prices, raise_at, maxlen, i + 1, ph2, app2)
             ELSE update_price_history_loop(symbols, prices, raise_at, maxlen, i + 1, ph1, appended)

TradingBot_update_price_history(ph, maxlen, symbols, prices, raise_at) ==
    update_price_history_loop(symbols, prices, raise_at, maxlen, 1, ph, <<>>)

\* variant: the band is two standard deviations wide
BelowStdev_TwoSigma(prices, n, total, current) ==
    LET diff == total - n * current
        distinct == Cardinality({prices[i] : i \in 1..Len(prices)})
    IN  IF distinct > 1
        THEN diff < 0 \/ diff * diff * (n - 1) < 4 * SumSquaredDeviations(prices, n, total)
        ELSE diff < 0

\* price_stdev > (price_mean - current_price), for the difference total/n - current
\* and the sample standard deviation of prices (0 when all prices are equal)
BelowStdev(prices, n, total, current) ==
    LET diff == total - n * current
        distinct == Cardinality({prices[i] : i \in 1..Len(prices)})
    IN  IF distinct > 1
        THEN diff < 0 \/ diff * diff * (n - 1) < SumSquaredDeviations(prices, n, total)
        ELSE diff < 0

\* variant: the length check only rejects an empty buffer
TradingBot_should_buy_NonEmpty(ph, maxlen, symbol, current_price) ==
    IF current_price = None THEN [raised |-> FALSE, result |-> None]
    ELSE IF symbol \notin DOMAIN ph THEN [raised |-> TRUE, result |-> None]
    ELSE IF Len(ph[symbol]) < 1 THEN [raised |-> FALSE, result |-> None]
    ELSE LET prices == ph[symbol]
             n == Len(prices)
             total == Sum(prices)
         IN  IF current_price[1] * n < total /\ BelowStdev(prices, n, total, current_price[1])
             THEN [raised |-> FALSE, result |-> Some(<<total, n>>)]
             ELSE [raised |-> FALSE, result |-> None]

\* returns [raised, result]: result is None or Some(mean), mean = <<sum, count>>
TradingBot_should_buy(ph, maxlen, symbol, current_price) ==
    IF current_price = None THEN [raised |-> FALSE, result |-> None]
    ELSE IF symbol \notin DOMAIN ph THEN [raised |-> TRUE, result |-> None]
    ELSE IF Len(ph[symbol]) < maxlen THEN [raised |-> FALSE, result |-> None]
    ELSE IF ph[symbol] = <<>> THEN [raised |-> TRUE, result |-> None]
    ELSE LET prices == ph[symbol]
             n == Len(prices)
             total == Sum(prices)
         IN  IF current_price[1] * n < total /\ BelowStdev(prices, n, total, current_price[1])
             THEN [raised |-> FALSE, result |-> Some(<<total, n>>)]
             ELSE [raised |-> FALSE, result |-> None]

RECURSIVE PushAll(_, _)
\* pushed after the appends of one call
PushAll(pu, appended) ==
    IF appended = <<>> THEN pu
    ELSE LET k == appended[1][1]
             old == IF k \in DOMAIN pu THEN pu[k] ELSE <<>>
         IN  PushAll(DictSet(pu, k, Append(old, appended[1][2])), Tail(appended))

RECURSIVE WalletPriceUpdates(_, _, _)
\* the wallet after the first n update_currency_price('trading', symbol, price)
\* calls of one update_price_history call
WalletPriceUpdates(w, appended, n) ==
    IF n = 0 THEN w
    ELSE WalletPriceUpdates(Wallet_update_currency_price(w, "trading", appended[1][1], appended[1][2]),
                            Tail(appended), n - 1)

\* a wallet as Wallet() leaves it
LedgerEmpty ==
    /\ accounts = <<>>
    /\ initialBalance = [q \in AccountTypes \X Symbols |-> 0]

update_price_history(symbols, prices, raise_at) ==
    LET r == TradingBot_update_price_history(price_history, PRICE_HISTORY_LENGTH, symbols, prices, raise_at)
    IN  /\ budget > 0
        /\ price_history' = r.price_history
        /\ pushed' = PushAll(pushed, r.appended)
        /\ last' = [op |-> "update_price_history", raised |-> r.raised]
        /\ budget' = budget - 1
        /\ accounts' = WalletPriceUpdates(accounts, r.appended, r.updated)
        /\ UNCHANGED <<statusState, profitState, allocationState, pricingState, threads, PRICE_HISTORY_LENGTH, initialBalance, orderState>>

should_buy(symbol, current_price) ==
    LET r == TradingBot_should_buy(price_history, PRICE_HISTORY_LENGTH, symbol, current_price)
    IN  /\ budget > 0
        /\ last' = [op |-> "should_buy", symbol |-> symbol, current_price |-> current_price,
                    raised |-> r.raised, result |-> r.result]
        /\ budget' = budget - 1
        /\ UNCHANGED <<statusState, profitState, allocationState, pricingState, threads, signalState, ledgerState, orderState>>

Optional(S) == {None} \cup {Some(x) : x \in S}

\* symbol lists of at most two entries, repeats included
RingSymbolLists ==
    {<<>>} \cup {<<a>> : a \in BotSymbols} \cup {<<a, b>> : a \in BotSymbols, b \in BotSymbols}

\* price dicts on any subset of the symbols
RingPriceDicts == UNION {[K -> Optional(RingPrices)] : K \in SUBSET BotSymbols}

InitRing ==
    /\ LedgerEmpty
    /\ BotConstructed
    /\ PRICE_HISTORY_LENGTH \in RingLengths
    /\ max_total_orders = 1
    /\ last = NoCall
    /\ budget = MaxRingCalls

\* two symbols, short buffers, calls that may fail part-way
NextRing ==
    \/ \E symbols \in RingSymbolLists, prices \in RingPriceDicts, raise_at \in 0..1 :
           update_price_history(symbols, prices, raise_at)
    \/ \E symbol \in BotSymbols, current_price \in Optional(RingCurrentPrices) :
           should_buy(symbol, current_price)

SpecRing == InitRing /\ [][NextRing]_vars

InitSignal ==
    /\ LedgerEmpty
    /\ BotConstructed
    /\ PRICE_HISTORY_LENGTH \in SignalLengths
    /\ max_total_orders = 1
    /\ last = NoCall
    /\ budget = MaxSignalCalls

\* one symbol, a buffer of five prices around 100
NextSignal ==
    \/ \E p \in SignalPrices :
           update_price_history(<<"BTC-USDT">>, [k \in {"BTC-USDT"} |-> Some(p)], 0)
    \/ \E current_price \in Optional(SignalCurrentPrices) :
           should_buy("BTC-USDT", current_price)

SpecSignal == InitSignal /\ [][NextSignal]_vars

(***************************************************************************)
(* trading_bot.py : order placement                                        *)
(*                                                                         *)
(* An order is a record (a dict); a key it lacks raises KeyError when read.*)
(* A result is None or Some(order).  Every exception raised under          *)
(* place_buy_order / place_sell_order is swallowed by handle_trading_errors*)
(* and the call returns None.                                              *)
(* The exchange client and the wallet the bot holds are its collaborators: *)
(* the exchange call returns an order with a fresh orderId or raises, and  *)
(* the wallet's update_wallet_state and get_available_balance, which the   *)
(* bot calls in a form wallet.py does not define, return or raise.         *)
(***************************************************************************)
\* outcomes of a call to the bot's wallet
WalletOutcomes == {"returns", "raises"}
\* outcomes of trade_client.create_limit_order
ExchangeOutcomes == {"returns", "raises"}

\* config.py place_spot_order with is_simulation=True; clock is time.time().
\* The fee is size*price*0.001, kept as the fraction <<size*price, 1000>>.
place_spot_order(symbol, side, price, size, clock) ==
    [orderId |-> <<"sim", side, symbol, clock>>, symbol |-> symbol, side |-> side,
     price |-> price, size |-> size, fee |-> <<size * price, 1000>>]

\* the response of the exchange to create_limit_order
LiveOrder(id) == [orderId |-> id]

\* order.get('fee', 0), as a fraction
OrderFee(order) == IF "fee" \in DOMAIN order THEN order.fee ELSE <<0, 1>>

\* variant: the limit itself is still accepted
TradingBot_can_place_order_Inclusive(ao, max, symbol) ==
    LET RECURSIVE Count(_)
        Count(keys) == IF keys = {} THEN 0
                       ELSE LET k == CHOOSE x \in keys : TRUE
                            IN  Len(ao[k]) + Count(keys \ {k})
    IN  Count(DOMAIN ao) <= max

\* sum(len(orders) for orders in self.active_orders.values())
TotalOrders(ao) ==
    LET RECURSIVE Count(_)
        Count(keys) == IF keys = {} THEN 0
                       ELSE LET k == CHOOSE x \in keys : TRUE
                            IN  Len(ao[k]) + Count(keys \ {k})
    IN  Count(DOMAIN ao)

\* variant: only the orders of the requesting symbol are counted
TradingBot_can_place_order_PerSymbol(ao, max, symbol) ==
    (IF symbol \in DOMAIN ao THEN Len(ao[symbol]) ELSE 0) < max

\* can_place_order; the symbol argument is not read
TradingBot_can_place_order(ao, max, symbol) == TotalOrders(ao) < max

\* self.active_orders[symbol].append(order), creating the list when needed
AppendOrder(ao, symbol, order) ==
    DictSet(ao, symbol, Append(IF symbol \in DOMAIN ao THEN ao[symbol] ELSE <<>>, order))

\* the results below are records [trades, orders, wallet, result, raised]
Outcome(at, ao, w, result, raised) ==
    [trades |-> at, orders |-> ao, wallet |-> w, result |-> result, raised |-> raised]

\* variant: a sell closes the trades of its symbol
TradingBot_process_order_response_SellClosesTrade(at, ao, w, order, side, symbol, amount, price, wallet_outcome) ==
    LET at1 == IF side = "buy"
               THEN DictSet(at, order.orderId,
                            [symbol |-> symbol, buy_price |-> price, amount |-> amount,
                             fee |-> OrderFee(order)])
               ELSE [k \in {j \in DOMAIN at : at[j].symbol # symbol} |-> at[k]]
    IN  IF wallet_outcome = "raises"
        THEN Outcome(at1, ao, w, None, TRUE)
        ELSE Outcome(at1, AppendOrder(ao, symbol, order),
                     Wallet_update_wallet_state(w, "trading", symbol, amount, price, side),
                     Some(order), FALSE)

\* variant: a sell replaces the orders of its symbol instead of joining them
TradingBot_process_order_response_SellClosesOrders(at, ao, w, order, side, symbol, amount, price, wallet_outcome) ==
    LET at1 == IF side = "buy"
               THEN DictSet(at, order.orderId,
                            [symbol |-> symbol, buy_price |-> price, amount |-> amount,
                             fee |-> OrderFee(order)])
               ELSE at
    IN  IF wallet_outcome = "raises"
        THEN Outcome(at1, ao, w, None, TRUE)
        ELSE Outcome(at1,
                     IF side = "buy" THEN AppendOrder(ao, symbol, order) ELSE DictSet(ao, symbol, <<>>),
                     Wallet_update_wallet_state(w, "trading", symbol, amount, price, side),
                     Some(order), FALSE)

\* _process_order_response
TradingBot_process_order_response(at, ao, w, order, side, symbol, amount, price, wallet_outcome) ==
    LET at1 == IF side = "buy"
               THEN DictSet(at, order.orderId,
                            [symbol |-> symbol, buy_price |-> price, amount |-> amount,
                             fee |-> OrderFee(order)])
               ELSE at
    IN  IF wallet_outcome = "raises"
        THEN Outcome(at1, ao, w, None, TRUE)
        ELSE Outcome(at1, AppendOrder(ao, symbol, order),
                     Wallet_update_wallet_state(w, "trading", symbol, amount, price, side),
                     Some(order), FALSE)

\* _place_simulated_buy_order; amount_usdt / limit_price raises ZeroDivisionError
\* for a zero price and is exact for the prices used here
TradingBot_place_simulated_buy_order(at, ao, w, symbol, amount_usdt, limit_price, clock, wallet_outcome) ==
    IF limit_price = 0 THEN Outcome(at, ao, w, None, TRUE)
    ELSE LET order == place_spot_order(symbol, "buy", limit_price, amount_usdt \div limit_price, clock)
         IN  IF "dealSize" \notin DOMAIN order
             THEN Outcome(at, ao, w, None, TRUE)
             ELSE LET at1 == DictSet(at, order.orderId,
                                     [symbol |-> symbol, buy_price |-> order.price,
                                      amount |-> order.dealSize, fee |-> order.fee])
                  IN  IF wallet_outcome = "raises"
                      THEN Outcome(at1, ao, w, None, TRUE)
                      ELSE Outcome(at1, AppendOrder(ao, symbol, order),
                                   Wallet_update_wallet_state(w, "trading", symbol, order.dealSize,
                                                              order.price, "buy"),
                                   Some(order), FALSE)

\* _place_simulated_sell_order
TradingBot_place_simulated_sell_order(at, ao, w, symbol, amount_crypto, target_sell_price, clock, wallet_outcome) ==
    LET order == place_spot_order(symbol, "sell", target_sell_price, amount_crypto, clock)
    IN  IF "dealSize" \notin DOMAIN order
        THEN Outcome(at, ao, w, None, TRUE)
        ELSE IF wallet_outcome = "raises"
        THEN Outcome(at, ao, w, None, TRUE)
        ELSE Outcome(at, AppendOrder(ao, symbol, order),
                     Wallet_update_wallet_state(w, "trading", symbol, order.dealSize, order.price, "sell"),
                     Some(order), FALSE)

\* _place_live_buy_order: its try block turns every exception into a None result
TradingBot_place_live_buy_order(at, ao, w, symbol, amount_usdt, limit_price, id, exchange_outcome, wallet_outcome) ==
    IF limit_price = 0 \/ exchange_outcome = "raises" THEN Outcome(at, ao, w, None, FALSE)
    ELSE LET r == TradingBot_process_order_response(at, ao, w, LiveOrder(id), "buy", symbol,
                                                    amount_usdt, limit_price, wallet_outcome)
         IN  Outcome(r.trades, r.orders, r.wallet, r.result, FALSE)

\* _place_live_sell_order
TradingBot_place_live_sell_order(at, ao, w, symbol, amount_crypto, target_sell_price, id, exchange_outcome, wallet_outcome) ==
    IF exchange_outcome = "raises" THEN Outcome(at, ao, w, None, FALSE)
    ELSE LET r == TradingBot_process_order_response(at, ao, w, LiveOrder(id), "sell", symbol,
                                                    amount_crypto, target_sell_price, wallet_outcome)
         IN  Outcome(r.trades, r.orders, r.wallet, r.result, FALSE)

\* an outcome together with whether the exchange (or the simulated fill) was called
Placement(r, called) ==
    [trades |-> r.trades, orders |-> r.orders, wallet |-> r.wallet, result |-> r.result,
     raised |-> FALSE, called |-> called]

\* variant: a buy is placed whatever the available balance is
TradingBot_place_buy_order_NoBalanceCheck(at, ao, w, sim, max, symbol, amount_usdt, limit_price, available, id, exchange_outcome, wallet_outcome) ==
    IF ~TradingBot_can_place_order(ao, max, symbol)
    THEN Placement(Outcome(at, ao, w, None, FALSE), FALSE)
    ELSE IF available = None THEN Placement(Outcome(at, ao, w, None, FALSE), FALSE)
    ELSE Placement(IF sim
                   THEN TradingBot_place_simulated_buy_order(at, ao, w, symbol, amount_usdt,
                                                             limit_price, id, wallet_outcome)
                   ELSE TradingBot_place_live_buy_order(at, ao, w, symbol, amount_usdt, limit_price,
                                                        id, exchange_outcome, wallet_outcome),
                   limit_price # 0)

\* place_buy_order under handle_trading_errors; available is None when
\* get_available_balance raises.  The size amount_usdt / limit_price is computed
\* before the exchange or the simulated fill is called, so a zero price calls neither.
TradingBot_place_buy_order(at, ao, w, sim, max, symbol, amount_usdt, limit_price, available, id, exchange_outcome, wallet_outcome) ==
    IF ~TradingBot_can_place_order(ao, max, symbol)
    THEN Placement(Outcome(at, ao, w, None, FALSE), FALSE)
    ELSE IF available = None THEN Placement(Outcome(at, ao, w, None, FALSE), FALSE)
    ELSE IF amount_usdt > available[1] THEN Placement(Outcome(at, ao, w, None, FALSE), FALSE)
    ELSE Placement(IF sim
                   THEN TradingBot_place_simulated_buy_order(at, ao, w, symbol, amount_usdt,
                                                             limit_price, id, wallet_outcome)
                   ELSE TradingBot_place_live_buy_order(at, ao, w, symbol, amount_usdt, limit_price,
                                                        id, exchange_outcome, wallet_outcome),
                   limit_price # 0)

\* place_sell_order under handle_trading_errors
TradingBot_place_sell_order(at, ao, w, sim, max, symbol, amount_crypto, target_sell_price, id, exchange_outcome, wallet_outcome) ==
    IF ~TradingBot_can_place_order(ao, max, symbol)
    THEN Placement(Outcome(at, ao, w, None, FALSE), FALSE)
    ELSE Placement(IF sim
                   THEN TradingBot_place_simulated_sell_order(at, ao, w, symbol, amount_crypto,
                                                              target_sell_price, id, wallet_outcome)
                   ELSE TradingBot_place_live_sell_order(at, ao, w, symbol, amount_crypto,
                                                         target_sell_price, id, exchange_outcome,
                                                         wallet_outcome),
                   TRUE)

place_buy_order(symbol, amount_usdt, limit_price, available, exchange_outcome, wallet_outcome) ==
    LET r == TradingBot_place_buy_order(active_trades, active_orders, accounts, is_simulation,
                                        max_total_orders, symbol, amount_usdt, limit_price, available,
                                        order_seq + 1, exchange_outcome, wallet_outcome)
    IN  /\ budget > 0
        /\ active_trades' = r.trades
        /\ active_orders' = r.orders
        /\ accounts' = r.wallet
        /\ order_seq' = order_seq + 1
        /\ last' = [op |-> "place_buy_order", symbol |-> symbol, result |-> r.result,
                    allowed |-> TradingBot_can_place_order(active_orders, max_total_orders, symbol),
                    amount |-> amount_usdt, price |-> limit_price, available |-> available,
                    exchange |-> exchange_outcome, wallet |-> wallet_outcome, raised |-> r.raised,
                    called |-> r.called]
        /\ budget' = budget - 1
        /\ UNCHANGED <<statusState, profitState, allocationState, pricingState, threads, initialBalance, signalState, is_simulation, max_total_orders>>

place_sell_order(symbol, amount_crypto, target_sell_price, exchange_outcome, wallet_outcome) ==
    LET r == TradingBot_place_sell_order(active_trades, active_orders, accounts, is_simulation,
                                         max_total_orders, symbol, amount_crypto, target_sell_price,
                                         order_seq + 1, exchange_outcome, wallet_outcome)
    IN  /\ budget > 0
        /\ active_trades' = r.trades
        /\ active_orders' = r.orders
        /\ accounts' = r.wallet
        /\ order_seq' = order_seq + 1
        /\ last' = [op |-> "place_sell_order", symbol |-> symbol, result |-> r.result,
                    allowed |-> TradingBot_can_place_order(active_orders, max_total_orders, symbol),
                    amount |-> amount_crypto, price |-> target_sell_price, available |-> None,
                    exchange |-> exchange_outcome, wallet |-> wallet_outcome, raised |-> r.raised,
                    called |-> r.called]
        /\ budget' = budget - 1
        /\ UNCHANGED <<statusState, profitState, allocationState, pricingState, threads, initialBalance, signalState, is_simulation, max_total_orders>>

can_place_order(symbol) ==
    /\ budget > 0
    /\ last' = [op |-> "can_place_order", symbol |-> symbol, result |-> None,
                allowed |-> TradingBot_can_place_order(active_orders, max_total_orders, symbol),
                amount |-> 0, price |-> 0, available |-> None, exchange |-> "", wallet |-> "",
                raised |-> FALSE, called |-> FALSE]
    /\ budget' = budget - 1
    /\ UNCHANGED <<ledgerState, signalState, orderState, statusState, profitState, allocationState, pricingState, threads>>

\* the wallet of a bot: the account "trading" as create_wallet builds it when the
\* exchange lists no balance (wallet.py:203-206), or holding the traded pair and USDT
BotWallets ==
    {<<Account("trading", <<>>)>>,
     <<Account("trading", <<Currency("BTC-USDT", 0), Currency("USDT", 1000)>>)>>}

\* a bot in simulation or live mode
InitBot ==
    /\ accounts \in BotWallets
    /\ initialBalance = [q \in AccountTypes \X Symbols |-> 0]
    /\ price_history = <<>>
    /\ pushed = <<>>
    /\ active_orders = <<>>
    /\ active_trades = <<>>
    /\ order_seq = 0
    /\ BotAttributes
    /\ is_simulation \in BOOLEAN
    /\ max_total_orders \in OrderLimits
    /\ PRICE_HISTORY_LENGTH = 120
    /\ last = NoCall
    /\ budget = MaxPlacements

NextBot ==
    \/ \E symbol \in BotSymbols : can_place_order(symbol)
    \/ \E symbol \in BotSymbols, amount_usdt \in BuyAmountsUsdt, limit_price \in LimitPrices,
          available \in Optional(AvailableBalances), e \in ExchangeOutcomes, o \in WalletOutcomes :
           place_buy_order(symbol, amount_usdt, limit_price, available, e, o)
    \/ \E symbol \in BotSymbols, amount_crypto \in SellAmounts, target_sell_price \in SellPrices,
          e \in ExchangeOutcomes, o \in WalletOutcomes :
           place_sell_order(symbol, amount_crypto, target_sell_price, e, o)

SpecBot == InitBot /\ [][NextBot]_vars

(***************************************************************************)
(* trading_bot.py : status snapshots                                       *)
(*                                                                         *)
(* get_current_status asks the wallet for its USDT totals and its profits  *)
(* (get_total_balance, get_tradable_balance, get_liquid_balance,           *)
(* get_profits), which wallet.py does not define: the answers are values   *)
(* the bot's wallet returns, or the first of the calls raises.  The        *)
(* timestamp of a snapshot is the number of the snapshot.                  *)
(***************************************************************************)
\* number of get_current_status calls in a run
MaxStatusCalls == 122

\* the literal cap on len(self.status_history)
StatusHistoryCap == 120

\* what the bot's wallet answers to the balance and profit queries
StatusWalletValues ==
    {[current_total_usdt |-> 1000, tradable_usdt |-> 500, liquid_usdt |-> 500,
      profits |-> [s \in {"BTC-USDT"} |-> 3]]}

\* the prices argument of get_current_status
StatusPrices == {[s \in BotSymbols |-> 50]}

\* sum(d.values())
SumValues(d) ==
    LET RECURSIVE Total(_)
        Total(keys) == IF keys = {} THEN 0
                       ELSE LET k == CHOOSE x \in keys : TRUE
                            IN  d[k] + Total(keys \ {k})
    IN  Total(DOMAIN d)

\* Wallet.get_account_summary
Wallet_get_account_summary(w) ==
    [i \in 1..Len(w) |->
        [account_type |-> w[i].account_type,
         currencies |-> [j \in 1..Len(w[i].currencies) |->
                            [symbol |-> w[i].currencies[j].symbol,
                             balance |-> w[i].currencies[j].balance,
                             current_price |-> w[i].currencies[j].current_price]]]]

\* the dict built at trading_bot.py:207-220; the average is the fraction
\* <<total_profit, total_trades>>
StatusSnapshot(at, ao, w, tt, prices, now, wallet_values) ==
    [timestamp |-> now,
     prices |-> prices,
     active_trades |-> at,
     profits |-> wallet_values.profits,
     total_profit |-> SumValues(wallet_values.profits),
     current_total_usdt |-> wallet_values.current_total_usdt,
     tradable_usdt |-> wallet_values.tradable_usdt,
     liquid_usdt |-> wallet_values.liquid_usdt,
     wallet_summary |-> Wallet_get_account_summary(w),
     total_trades |-> tt,
     avg_profit_per_trade |-> IF tt > 0 THEN <<SumValues(wallet_values.profits), tt>> ELSE <<0, 1>>,
     active_orders |-> [s \in DOMAIN ao |-> Len(ao[s])]]

\* variant: the newest snapshot is dropped when the list is over the cap
TradingBot_get_current_status_EvictsNewest(sh, at, ao, w, tt, prices, now, wallet_values) ==
    IF wallet_values = None
    THEN [status_history |-> sh, result |-> None, raised |-> TRUE]
    ELSE LET status == StatusSnapshot(at, ao, w, tt, prices, now, wallet_values[1])
             sh1 == Append(sh, status)
         IN  [status_history |-> IF Len(sh1) > StatusHistoryCap
                                 THEN SubSeq(sh1, 1, Len(sh1) - 1) ELSE sh1,
              result |-> Some(status), raised |-> FALSE]

\* get_current_status; wallet_values is None when a wallet query raises
TradingBot_get_current_status(sh, at, ao, w, tt, prices, now, wallet_values) ==
    IF wallet_values = None
    THEN [status_history |-> sh, result |-> None, raised |-> TRUE]
    ELSE LET status == StatusSnapshot(at, ao, w, tt, prices, now, wallet_values[1])
             sh1 == Append(sh, status)
         IN  [status_history |-> IF Len(sh1) > StatusHistoryCap THEN Tail(sh1) ELSE sh1,
              result |-> Some(status), raised |-> FALSE]

get_current_status(prices, wallet_values) ==
    LET r == TradingBot_get_current_status(status_history, active_trades, active_orders, accounts,
                                           total_trades, prices, status_seq + 1, wallet_values)
    IN  /\ budget > 0
        /\ status_history' = r.status_history
        /\ status_seq' = IF r.raised THEN status_seq ELSE status_seq + 1
        /\ last' = [op |-> "get_current_status", result |-> r.result, raised |-> r.raised]
        /\ budget' = budget - 1
        /\ UNCHANGED <<ledgerState, signalState, orderState, total_trades, profitState, allocationState,
                       pricingState, threads>>

\* a bot whose wallet is the one create_wallet builds, polled for its status
InitStatus ==
    /\ accounts = <<Account("trading", <<>>)>>
    /\ initialBalance = [q \in AccountTypes \X Symbols |-> 0]
    /\ BotConstructed
    /\ PRICE_HISTORY_LENGTH = 120
    /\ max_total_orders = 1
    /\ last = NoCall
    /\ budget = MaxStatusCalls

NextStatus ==
    \/ \E prices \in StatusPrices, wallet_values \in Optional(StatusWalletValues) :
           get_current_status(prices, wallet_values)

SpecStatus == InitStatus /\ [][NextStatus]_vars

(***************************************************************************)
(* trading_bot.py : target sell price and profit                           *)
(*                                                                         *)
(* Rates are in thousandths (0.01 is 10, 0.001 is 1) and a price computed  *)
(* from them is the fraction <<numerator, denominator>>.                   *)
(***************************************************************************)
\* number of pricing and profit calls in a run
MaxPricingCalls == 2

\* the denominator of the rates
RateScale == 1000

\* configured profit_margin and fees, in thousandths
MarginRates == {0, 10, 25}
FeeRates == {0, 1, 2}
TargetBuyPrices == {0, 1, 50, 100, 250}

\* the dealFunds, fee and dealSize of the orders handed to calculate_profit
ProfitBuyFunds == {0, 100}
ProfitBuyFees == {0, 5}
ProfitBuySizes == {2}
ProfitSellFunds == {90, 102}
ProfitSellFees == {0, 1}

ProfitBuyOrders ==
    {[dealFunds |-> f, fee |-> e, dealSize |-> z] :
         f \in ProfitBuyFunds, e \in ProfitBuyFees, z \in ProfitBuySizes}

ProfitSellOrders ==
    {[dealFunds |-> f, fee |-> e, dealSize |-> z] :
         f \in ProfitSellFunds, e \in ProfitSellFees, z \in ProfitBuySizes}

\* variant: the taker fee is left out of the markup
TradingBot_calculate_target_sell_price_NoTakerFee(buy_price, margin, maker, taker) ==
    <<buy_price * (RateScale + margin + maker), RateScale>>

\* variant: the maker fee is left out of the markup
TradingBot_calculate_target_sell_price_NoMakerFee(buy_price, margin, maker, taker) ==
    <<buy_price * (RateScale + margin + taker), RateScale>>

\* calculate_target_sell_price: buy_price * (1 + profit_margin + maker_fee + taker_fee)
TradingBot_calculate_target_sell_price(buy_price, margin, maker, taker) ==
    <<buy_price * (RateScale + margin + maker + taker), RateScale>>

\* calculate_profit: the effective bought quantity divides by the buy dealFunds
\* (ZeroDivisionError when it is 0) and is not used in the result
TradingBot_calculate_profit(buy_order, sell_order) ==
    LET buy_amount_usdt == buy_order.dealFunds
        sell_amount_usdt == sell_order.dealFunds
        sell_fee_usdt == sell_order.fee
        actual_sell_amount_usdt == sell_amount_usdt - sell_fee_usdt
    IN  IF buy_amount_usdt = 0
        THEN [raised |-> TRUE, result |-> None]
        ELSE [raised |-> FALSE, result |-> Some(actual_sell_amount_usdt - buy_amount_usdt)]

\* amounts of money in the orders of a buy and its sell are in millionths of USDT
MoneyScale == 1000000

\* the fills of a buy and of its sell at the target price
RoundTripPrices == {50, 100}
RoundTripSizes == {1, 2}

\* a buy of size s filled at price p with the simulated fee size*price*0.001
\* (config.py:121)
RoundTripBuy(p, s) ==
    [dealFunds |-> s * p * MoneyScale, fee |-> (s * p * MoneyScale) \div RateScale, dealSize |-> s]

\* the sell of the same size filled at calculate_target_sell_price(p), with the
\* simulated fee on its own funds
RoundTripSell(p, s, margin, maker, taker) ==
    LET target == TradingBot_calculate_target_sell_price(p, margin, maker, taker)
        funds == s * target[1] * (MoneyScale \div target[2])
    IN  [dealFunds |-> funds, fee |-> funds \div RateScale, dealSize |-> s]

calculate_target_sell_price(buy_price) ==
    /\ budget > 0
    /\ last' = [op |-> "calculate_target_sell_price", buy_price |-> buy_price,
                result |-> TradingBot_calculate_target_sell_price(buy_price, profit_margin,
                                                                  maker_fee, taker_fee)]
    /\ budget' = budget - 1
    /\ UNCHANGED <<ledgerState, signalState, orderState, statusState, profitState, allocationState, pricingState, threads>>

calculate_profit(buy_order, sell_order) ==
    LET r == TradingBot_calculate_profit(buy_order, sell_order)
    IN  /\ budget > 0
        /\ last' = [op |-> "calculate_profit", buy_order |-> buy_order, sell_order |-> sell_order,
                    raised |-> r.raised, result |-> r.result]
        /\ budget' = budget - 1
        /\ UNCHANGED <<ledgerState, signalState, orderState, statusState, profitState, allocationState,
                       pricingState, threads>>

\* a bot constructed under any of the configured margins and fee pairs
InitPricing ==
    /\ LedgerEmpty
    /\ price_history = <<>>
    /\ pushed = <<>>
    /\ active_orders = <<>>
    /\ active_trades = <<>>
    /\ is_simulation = FALSE
    /\ order_seq = 0
    /\ status_history = <<>>
    /\ status_seq = 0
    /\ total_trades = 0
    /\ profits = <<>>
    /\ profit_calls = 0
    /\ threads = NoThreads
    /\ symbol_allocations = <<>>
    /\ currency_allocations = <<>>
    /\ profit_margin \in MarginRates
    /\ maker_fee \in FeeRates
    /\ taker_fee \in FeeRates
    /\ PRICE_HISTORY_LENGTH = 120
    /\ max_total_orders = 1
    /\ last = NoCall
    /\ budget = MaxPricingCalls

NextPricing ==
    \/ \E buy_price \in TargetBuyPrices : calculate_target_sell_price(buy_price)
    \/ \E buy_order \in ProfitBuyOrders, sell_order \in ProfitSellOrders :
           calculate_profit(buy_order, sell_order)
    \/ \E p \in RoundTripPrices, s \in RoundTripSizes :
           calculate_profit(RoundTripBuy(p, s),
                            RoundTripSell(p, s, profit_margin, maker_fee, taker_fee))

SpecPricing == InitPricing /\ [][NextPricing]_vars

(***************************************************************************)
(* trading_bot.py : allocations                                            *)
(*                                                                         *)
(* A weight and an allocation are fractions <<numerator, denominator>>.    *)
(* wallet.get_tradable_balance and wallet.set_currency_allocations are     *)
(* calls to the bot's wallet that wallet.py does not define: the first     *)
(* returns an amount or raises, the second returns or raises.              *)
(***************************************************************************)
\* number of allocation calls in a run
MaxAllocationCalls == 3

\* lists of selected symbols
AllocationSymbolLists ==
    {<<>>} \cup {<<a>> : a \in BotSymbols}
           \cup {<<p[1], p[2]>> : p \in {q \in BotSymbols \X BotSymbols : q[1] # q[2]}}

\* what get_tradable_balance('USDT') returns
TradableAmounts == {-5, 0, 1000}

\* config_manager.get_currency_allocations() with no explicit weights configured:
\* no weights at all, or the equal split over the configured trading symbols
ConfiguredAllocations ==
    {<<>>, [s \in BotSymbols |-> <<1, Cardinality(BotSymbols)>>]}

\* the set of the elements of a list
Elements(xs) == {xs[i] : i \in 1..Len(xs)}

\* self.currency_allocations.get(symbol, 0)
WeightOf(ca, symbol) == IF symbol \in DOMAIN ca THEN ca[symbol] ELSE <<0, 1>>

\* variant: only a negative tradable amount gives the empty map
TradingBot_get_user_allocations_OnlyNegative(ca, user_selected_symbols, tradable) ==
    IF tradable = None THEN [raised |-> TRUE, result |-> None]
    ELSE IF tradable[1] < 0 \/ user_selected_symbols = <<>>
    THEN [raised |-> FALSE, result |-> Some(<<>>)]
    ELSE [raised |-> FALSE,
          result |-> Some([symbol \in Elements(user_selected_symbols) |->
                              <<tradable[1] * WeightOf(ca, symbol)[1], WeightOf(ca, symbol)[2]>>])]

\* get_user_allocations; tradable is None when get_tradable_balance raises
TradingBot_get_user_allocations(ca, user_selected_symbols, tradable) ==
    IF tradable = None THEN [raised |-> TRUE, result |-> None]
    ELSE IF tradable[1] <= 0 \/ user_selected_symbols = <<>>
    THEN [raised |-> FALSE, result |-> Some(<<>>)]
    ELSE [raised |-> FALSE,
          result |-> Some([symbol \in Elements(user_selected_symbols) |->
                              <<tradable[1] * WeightOf(ca, symbol)[1], WeightOf(ca, symbol)[2]>>])]

\* update_allocations: the allocations are computed from the weights held before
\* the call, then the weights become the equal split over the list
TradingBot_update_allocations(sa, ca, user_selected_symbols, tradable, wallet_outcome) ==
    LET r == TradingBot_get_user_allocations(ca, user_selected_symbols, tradable)
    IN  IF r.raised
        THEN [symbol_allocations |-> sa, currency_allocations |-> ca, raised |-> TRUE]
        ELSE [symbol_allocations |-> r.result[1],
              currency_allocations |-> [symbol \in Elements(user_selected_symbols) |->
                                           <<1, Len(user_selected_symbols)>>],
              raised |-> wallet_outcome = "raises"]

get_user_allocations(user_selected_symbols, tradable) ==
    LET r == TradingBot_get_user_allocations(currency_allocations, user_selected_symbols, tradable)
    IN  /\ budget > 0
        /\ last' = [op |-> "get_user_allocations", symbols |-> user_selected_symbols,
                    tradable |-> tradable, wallet |-> "", raised |-> r.raised, result |-> r.result]
        /\ budget' = budget - 1
        /\ UNCHANGED <<ledgerState, signalState, orderState, statusState, profitState, allocationState,
                       pricingState, threads>>

update_allocations(user_selected_symbols, tradable, wallet_outcome) ==
    LET r == TradingBot_update_allocations(symbol_allocations, currency_allocations,
                                           user_selected_symbols, tradable, wallet_outcome)
    IN  /\ budget > 0
        /\ symbol_allocations' = r.symbol_allocations
        /\ currency_allocations' = r.currency_allocations
        /\ last' = [op |-> "update_allocations", symbols |-> user_selected_symbols,
                    tradable |-> tradable, wallet |-> wallet_outcome, raised |-> r.raised,
                    result |-> None]
        /\ budget' = budget - 1
        /\ UNCHANGED <<ledgerState, signalState, orderState, statusState, profitState, pricingState, threads>>

\* a constructed bot holding the configured weights
InitAllocation ==
    /\ LedgerEmpty
    /\ price_history = <<>>
    /\ pushed = <<>>
    /\ active_orders = <<>>
    /\ active_trades = <<>>
    /\ is_simulation = FALSE
    /\ order_seq = 0
    /\ status_history = <<>>
    /\ status_seq = 0
    /\ total_trades = 0
    /\ profits = <<>>
    /\ profit_calls = 0
    /\ threads = NoThreads
    /\ symbol_allocations = <<>>
    /\ currency_allocations \in ConfiguredAllocations
    /\ profit_margin = 10
    /\ maker_fee = 1
    /\ taker_fee = 1
    /\ PRICE_HISTORY_LENGTH = 120
    /\ max_total_orders = 1
    /\ last = NoCall
    /\ budget = MaxAllocationCalls

NextAllocation ==
    \/ \E symbols \in AllocationSymbolLists, tradable \in Optional(TradableAmounts) :
           get_user_allocations(symbols, tradable)
    \/ \E symbols \in AllocationSymbolLists, tradable \in Optional(TradableAmounts),
          o \in WalletOutcomes :
           update_allocations(symbols, tradable, o)

SpecAllocation == InitAllocation /\ [][NextAllocation]_vars

(***************************************************************************)
(* wallet.py : create_wallet                                               *)
(*                                                                         *)
(* The exchange lists balances as records [type, currency, balance]; the   *)
(* listing is None when get_account_list raises.                           *)
(***************************************************************************)
\* number of ledger calls in a run that starts with create_wallet
MaxCreateSteps == 2

\* account types the exchange reports
ExchangeAccountTypes == {"trade", "main"}
ListedBalances == {2, 5}

ListedEntries ==
    {[type |-> t, currency |-> s, balance |-> b] :
         t \in ExchangeAccountTypes, s \in Symbols, b \in ListedBalances}

\* listings of at most two entries, one per account type and currency
ExchangeListings ==
    {<<>>} \cup {<<e>> : e \in ListedEntries}
           \cup {<<x[1], x[2]>> : x \in {y \in ListedEntries \X ListedEntries :
                                             y[1].type # y[2].type \/ y[1].currency # y[2].currency}}

RECURSIVE SyncEntries(_, _, _)
\* the loop of sync_with_exchange over the listed entries
SyncEntries(w, account_type, entries) ==
    IF entries = <<>> THEN w
    ELSE SyncEntries(IF entries[1].type = account_type
                     THEN Wallet_update_account_balance(w, account_type, entries[1].currency,
                                                        entries[1].balance)
                     ELSE w,
                     account_type, Tail(entries))

\* sync_with_exchange; a failed listing is logged and changes nothing
Wallet_sync_with_exchange(w, account_type, listing) ==
    IF listing = None THEN w ELSE SyncEntries(w, account_type, listing[1])

\* create_wallet: Wallet(), add_account("trading"), sync_with_exchange("trade")
create_wallet_result(listing) ==
    Wallet_sync_with_exchange(Wallet_add_account(<<>>, "trading"), "trade", listing)

create_wallet(listing) ==
    /\ budget > 0
    /\ last = NoCall
    /\ accounts' = create_wallet_result(listing)
    /\ initialBalance' = [q \in AccountTypes \X Symbols |->
                             Wallet_get_currency_balance(accounts', q[1], q[2])]
    /\ last' = [op |-> "create_wallet", listing |-> listing]
    /\ budget' = budget - 1
    /\ UNCHANGED <<statusState, profitState, allocationState, pricingState, threads, signalState, orderState>>

\* no wallet yet; create_wallet builds it and trades on "trading" follow
InitCreate ==
    /\ LedgerEmpty
    /\ BotConstructed
    /\ PRICE_HISTORY_LENGTH = 120
    /\ max_total_orders = 1
    /\ last = NoCall
    /\ budget = MaxCreateSteps

NextCreate ==
    \/ \E listing \in Optional(ExchangeListings) : create_wallet(listing)
    \/ \E s \in Symbols, a \in TradeAmounts, p \in TradePrices, k \in TradeTypes :
           record_trade("trading", s, a, p, k)

SpecCreate == InitCreate /\ [][NextCreate]_vars

(***************************************************************************)
(* trading_bot.py : update_profit                                          *)
(*                                                                         *)
(* The wallet's update_profits keeps the realized profit per symbol.       *)
(***************************************************************************)
\* number of bot calls in a run that records profits
MaxProfitCalls == 3

\* profits of closed trade pairs
ProfitAmounts == {-1, 2}

\* wallet.update_profits: the profit is added to the symbol's realized profit
Wallet_update_profits(p, symbol, profit) ==
    DictSet(p, symbol, (IF symbol \in DOMAIN p THEN p[symbol] ELSE 0) + profit)

\* variant: the trade is counted before the wallet is called
TradingBot_update_profit_CountsFirst(p, tt, symbol, profit, wallet_outcome) ==
    IF wallet_outcome = "raises"
    THEN [profits |-> p, total_trades |-> tt + 1, raised |-> TRUE]
    ELSE [profits |-> Wallet_update_profits(p, symbol, profit), total_trades |-> tt + 1,
          raised |-> FALSE]

\* update_profit: the wallet call, then total_trades += 1; a raise of the wallet
\* call leaves the counter as it was
TradingBot_update_profit(p, tt, symbol, profit, wallet_outcome) ==
    IF wallet_outcome = "raises"
    THEN [profits |-> p, total_trades |-> tt, raised |-> TRUE]
    ELSE [profits |-> Wallet_update_profits(p, symbol, profit), total_trades |-> tt + 1,
          raised |-> FALSE]

update_profit(symbol, profit, wallet_outcome) ==
    LET r == TradingBot_update_profit(profits, total_trades, symbol, profit, wallet_outcome)
    IN  /\ budget > 0
        /\ profits' = r.profits
        /\ total_trades' = r.total_trades
        /\ profit_calls' = IF r.raised THEN profit_calls ELSE profit_calls + 1
        /\ last' = [op |-> "update_profit", symbol |-> symbol, profit |-> profit,
                    raised |-> r.raised]
        /\ budget' = budget - 1
        /\ UNCHANGED <<ledgerState, signalState, orderState, status_history, status_seq,
                       allocationState, pricingState, threads>>

\* a live bot that places orders, reports its status and records profits
InitProfit ==
    /\ accounts \in BotWallets
    /\ initialBalance = [q \in AccountTypes \X Symbols |-> 0]
    /\ BotConstructed
    /\ is_simulation = FALSE
    /\ max_total_orders = 2
    /\ PRICE_HISTORY_LENGTH = 120
    /\ last = NoCall
    /\ budget = MaxProfitCalls

NextProfit ==
    \/ \E symbol \in BotSymbols, profit \in ProfitAmounts, o \in WalletOutcomes :
           update_profit(symbol, profit, o)
    \/ \E symbol \in BotSymbols, amount_usdt \in BuyAmountsUsdt, limit_price \in LimitPrices,
          available \in Optional(AvailableBalances), e \in ExchangeOutcomes, o \in WalletOutcomes :
           place_buy_order(symbol, amount_usdt, limit_price, available, e, o)
    \/ \E symbol \in BotSymbols, amount_crypto \in SellAmounts, target_sell_price \in SellPrices,
          e \in ExchangeOutcomes, o \in WalletOutcomes :
           place_sell_order(symbol, amount_crypto, target_sell_price, e, o)
    \/ \E prices \in StatusPrices, wallet_values \in Optional(StatusWalletValues) :
           get_current_status(prices, wallet_values)
    \/ \E symbols \in AllocationSymbolLists, tradable \in Optional(TradableAmounts),
          o \in WalletOutcomes :
           update_allocations(symbols, tradable, o)

SpecProfit == InitProfit /\ [][NextProfit]_vars

(***************************************************************************)
(* streamlit_app.py : the trading thread and the status loop               *)
(*                                                                         *)
(* main starts trading_loop in a thread and then calls get_current_status  *)
(* once a second; nothing in the bot locks its dicts.  The steps below are *)
(* the statements of place_buy_order/_process_order_response and of        *)
(* get_current_status between which the other thread may run.              *)
(***************************************************************************)
\* number of thread steps in a run
MaxThreadSteps == 7

\* the buys the trading loop asks for, one per tick and symbol
TradingLoopBuys ==
    [symbol : BotSymbols, amount_usdt : BuyAmountsUsdt, limit_price : LimitPrices \ {0}]

\* {symbol: len(orders) for symbol, orders in active_orders.items()}
OrderCounts(ao) == [s \in DOMAIN ao |-> Len(ao[s])]

\* the pair a snapshot reports of one state of the bot
Moment(at, ao) == <<at, OrderCounts(ao)>>

\* the bookkeeping of a step of the trading thread that leaves it at trader1
\* with the dicts at1 and ao1
TraderStep(th, trader1, at1, ao1) ==
    [th EXCEPT !.trader = trader1,
               !.stable = IF trader1.pc = "idle" THEN Moment(at1, ao1) ELSE @,
               !.moments = IF th.status.pc # "idle" /\ trader1.pc = "idle"
                           THEN @ \cup {Moment(at1, ao1)} ELSE @,
               !.status = IF @.pc # "idle" /\ (trader1.pc # "idle" \/ th.trader.pc # "idle")
                          THEN [@ EXCEPT !.overlap = TRUE] ELSE @]

\* trading thread: place_buy_order up to the registration of the ActiveTrade
\* (trading_bot.py:113-119, 141-146, 190-196)
trader_place_buy_order(buy, available, exchange_outcome) ==
    LET placed == /\ TradingBot_can_place_order(active_orders, max_total_orders, buy.symbol)
                  /\ available # None
                  /\ buy.amount_usdt <= available[1]
                  /\ exchange_outcome = "returns"
        order == LiveOrder(order_seq + 1)
        at1 == IF placed
               THEN DictSet(active_trades, order.orderId,
                            [symbol |-> buy.symbol, buy_price |-> buy.limit_price,
                             amount |-> buy.amount_usdt, fee |-> OrderFee(order)])
               ELSE active_trades
        trader1 == IF placed
                   THEN [pc |-> "registered", order |-> order, symbol |-> buy.symbol,
                         amount |-> buy.amount_usdt, price |-> buy.limit_price,
                         start |-> [trades |-> active_trades, orders |-> active_orders,
                                    wallet |-> accounts]]
                   ELSE [pc |-> "idle"]
    IN  /\ budget > 0
        /\ ~is_simulation
        /\ threads.trader.pc = "idle"
        /\ active_trades' = at1
        /\ order_seq' = order_seq + 1
        /\ threads' = TraderStep(threads, trader1, at1, active_orders)
        /\ last' = [op |-> "trader_place_buy_order", symbol |-> buy.symbol, placed |-> placed]
        /\ budget' = budget - 1
        /\ UNCHANGED <<ledgerState, signalState, active_orders, is_simulation, max_total_orders,
                       statusState, profitState, allocationState, pricingState>>

\* trading thread: the wallet call of _process_order_response (trading_bot.py:197);
\* its exception ends the placement at trading_bot.py:149-151
trader_update_wallet(wallet_outcome) ==
    LET t == threads.trader
        trader1 == IF wallet_outcome = "raises" THEN [pc |-> "idle"]
                   ELSE [t EXCEPT !.pc = "ledgered"]
    IN  /\ budget > 0
        /\ t.pc = "registered"
        /\ accounts' = IF wallet_outcome = "raises" THEN accounts
                       ELSE Wallet_update_wallet_state(accounts, "trading", t.symbol, t.amount,
                                                       t.price, "buy")
        /\ threads' = TraderStep(threads, trader1, active_trades, active_orders)
        /\ last' = [op |-> "trader_update_wallet", symbol |-> t.symbol,
                    raised |-> wallet_outcome = "raises",
                    serial |-> TradingBot_process_order_response(
                                   t.start.trades, t.start.orders, t.start.wallet, t.order, "buy",
                                   t.symbol, t.amount, t.price, wallet_outcome)]
        /\ budget' = budget - 1
        /\ UNCHANGED <<initialBalance, signalState, orderState, statusState, profitState,
                       allocationState, pricingState>>

\* trading thread: the order joins active_orders and the placement returns
\* (trading_bot.py:198-200, 148)
trader_append_order ==
    LET t == threads.trader
        ao1 == AppendOrder(active_orders, t.symbol, t.order)
    IN  /\ budget > 0
        /\ t.pc = "ledgered"
        /\ active_orders' = ao1
        /\ threads' = TraderStep(threads, [pc |-> "idle"], active_trades, ao1)
        /\ last' = [op |-> "trader_append_order", symbol |-> t.symbol, raised |-> FALSE,
                    serial |-> TradingBot_process_order_response(
                                   t.start.trades, t.start.orders, t.start.wallet, t.order, "buy",
                                   t.symbol, t.amount, t.price, "returns")]
        /\ budget' = budget - 1
        /\ UNCHANGED <<ledgerState, signalState, active_trades, is_simulation, max_total_orders,
                       order_seq, statusState, profitState, allocationState, pricingState>>

\* status loop: get_current_status up to the copy of active_trades
\* (trading_bot.py:203-210); a wallet query that raises ends the call
status_copy_trades(prices, wallet_values) ==
    /\ budget > 0
    /\ threads.status.pc = "idle"
    /\ threads' = IF wallet_values = None THEN threads
                  ELSE [threads EXCEPT !.status = [pc |-> "copied", prices |-> prices,
                                                   wallet_values |-> wallet_values[1],
                                                   trades |-> active_trades,
                                                   overlap |-> threads.trader.pc # "idle"],
                                       !.moments = {threads.stable}]
    /\ last' = IF wallet_values = None
               THEN [op |-> "get_current_status", result |-> None, error |-> "wallet",
                     overlap |-> FALSE]
               ELSE [op |-> "status_copy_trades"]
    /\ budget' = budget - 1
    /\ UNCHANGED <<ledgerState, signalState, orderState, statusState, profitState,
                   allocationState, pricingState>>

\* status loop: the wallet summary and the trade count are read and the iteration
\* over active_orders.items() begins (trading_bot.py:211-219)
status_iterate_orders ==
    /\ budget > 0
    /\ threads.status.pc = "copied"
    /\ threads' = [threads EXCEPT !.status =
                      [pc |-> "iterating", prices |-> @.prices, wallet_values |-> @.wallet_values,
                       trades |-> @.trades, overlap |-> @.overlap, wallet |-> accounts,
                       total_trades |-> total_trades,
                       used |-> Cardinality(DOMAIN active_orders), counts |-> <<>>]]
    /\ last' = [op |-> "status_iterate_orders"]
    /\ budget' = budget - 1
    /\ UNCHANGED <<ledgerState, signalState, orderState, statusState, profitState,
                   allocationState, pricingState>>

\* the snapshot the status loop has gathered
GatheredStatus(st, now) ==
    [StatusSnapshot(st.trades, <<>>, st.wallet, st.total_trades, st.prices, now, st.wallet_values)
         EXCEPT !.active_orders = st.counts]

\* status loop: one step of the iteration (trading_bot.py:219).  The dict iterator
\* raises RuntimeError when the dict has changed size since the iteration began;
\* otherwise it yields the next symbol, or, when there is none left, the snapshot
\* is appended and returned (trading_bot.py:222-227)
status_next_order ==
    LET st == threads.status
        left == DOMAIN active_orders \ DOMAIN st.counts
        status == GatheredStatus(st, status_seq + 1)
        sh1 == Append(status_history, status)
    IN  /\ budget > 0
        /\ st.pc = "iterating"
        /\ IF Cardinality(DOMAIN active_orders) # st.used
           THEN /\ threads' = [threads EXCEPT !.status = [pc |-> "idle"]]
                /\ last' = [op |-> "get_current_status", result |-> None,
                            error |-> "RuntimeError", overlap |-> st.overlap]
                /\ UNCHANGED <<status_history, status_seq>>
           ELSE IF left # {}
           THEN /\ \E s \in left :
                       threads' = [threads EXCEPT !.status.counts =
                                       DictSet(@, s, Len(active_orders[s]))]
                /\ last' = [op |-> "status_next_order"]
                /\ UNCHANGED <<status_history, status_seq>>
           ELSE /\ threads' = [threads EXCEPT !.status = [pc |-> "idle"]]
                /\ status_history' = IF Len(sh1) > StatusHistoryCap THEN Tail(sh1) ELSE sh1
                /\ status_seq' = status_seq + 1
                /\ last' = [op |-> "get_current_status", result |-> Some(status),
                            error |-> "none", overlap |-> st.overlap]
        /\ budget' = budget - 1
        /\ UNCHANGED <<ledgerState, signalState, orderState, total_trades, profitState,
                       allocationState, pricingState>>

\* a live bot whose trading thread and status loop have just been started
InitThreads ==
    /\ accounts \in BotWallets
    /\ initialBalance = [q \in AccountTypes \X Symbols |-> 0]
    /\ BotConstructed
    /\ is_simulation = FALSE
    /\ max_total_orders = 2
    /\ PRICE_HISTORY_LENGTH = 120
    /\ last = NoCall
    /\ budget = MaxThreadSteps

NextThreads ==
    \/ \E buy \in TradingLoopBuys, available \in Optional(AvailableBalances),
          e \in ExchangeOutcomes :
           trader_place_buy_order(buy, available, e)
    \/ \E o \in WalletOutcomes : trader_update_wallet(o)
    \/ trader_append_order
    \/ \E prices \in StatusPrices, wallet_values \in Optional(StatusWalletValues) :
           status_copy_trades(prices, wallet_values)
    \/ status_iterate_orders
    \/ status_next_order

SpecThreads == InitThreads /\ [][NextThreads]_vars

(***************************************************************************)
(* Ledger properties                                                       *)
(***************************************************************************)
Balance(w, t, s) == Wallet_get_currency_balance(w, t, s)

\* what the balance of a present currency should be by its own trade history
BalanceByTrades(w, t, s) ==
    initialBalance[<<t, s>>] + SumAmounts(CurrencyOf(w, t, s).buy_history)
                             - SumAmounts(CurrencyOf(w, t, s).sell_history)

\* C2 (as stated): for every account and every symbol present in it, the balance is
\* the initial balance plus the buy amounts minus the sell amounts recorded on it.
C2_BalanceIsInitialPlusTrades_AllSymbols ==
    \A t \in AccountTypes, s \in Symbols :
        HasCurrency(accounts, t, s) => Balance(accounts, t, s) = BalanceByTrades(accounts, t, s)

\* C2 (amended): for every account and every symbol other than USDT present in it,
\* after any sequence of buys, sells and price updates the balance is the initial
\* balance plus the buy amounts minus the sell amounts recorded on it.
C2_BalanceIsInitialPlusTrades ==
    \A t \in AccountTypes, s \in Symbols \ {"USDT"} :
        HasCurrency(accounts, t, s) => Balance(accounts, t, s) = BalanceByTrades(accounts, t, s)

\* a non-USDT currency that was bought, sold and repriced
C2_Witness ==
    \E t \in AccountTypes, s \in Symbols \ {"USDT"} :
        /\ HasCurrency(accounts, t, s)
        /\ CurrencyOf(accounts, t, s).buy_history # <<>>
        /\ CurrencyOf(accounts, t, s).sell_history # <<>>
        /\ CurrencyOf(accounts, t, s).price_history # <<>>

\* C3: a transfer of more than the source balance returns False and leaves the source
\* and destination balances unchanged; a transfer that returns True leaves the source
\* balance >= 0.
C3_TransferNeverOverdraws ==
    [][last'.op = "transfer_between_accounts" =>
          /\ last'.amount > Balance(accounts, last'.account, last'.symbol) =>
                 /\ ~last'.ok
                 /\ Balance(accounts', last'.account, last'.symbol) = Balance(accounts, last'.account, last'.symbol)
                 /\ Balance(accounts', last'.to, last'.symbol) = Balance(accounts, last'.to, last'.symbol)
          /\ last'.ok => Balance(accounts', last'.account, last'.symbol) >= 0]_vars

\* C4: record_trade against an absent account, or a symbol absent from the account,
\* changes nothing in the wallet.
C4_MissingEntityIsNoOp ==
    [][(last'.op = "record_trade" /\ ~HasCurrency(accounts, last'.account, last'.symbol))
          => accounts' = accounts]_vars

\* a record_trade call that found no such account or symbol
C4_Witness ==
    /\ last.op = "record_trade"
    /\ ~last.ok
    /\ ~HasCurrency(accounts, last.account, last.symbol)

\* C5: a successful record_trade of amount a at price p changes the symbol's balance
\* by +a (buy) or -a (sell) and then the account's USDT balance by -a*p (buy) or
\* +a*p (sell).
C5_TradeMovesUsdtByAmountTimesPrice ==
    [][(last'.op = "record_trade" /\ HasCurrency(accounts, last'.account, last'.symbol)) =>
          LET t == last'.account
              s == last'.symbol
              signed == IF last'.side = "buy" THEN last'.amount ELSE 0 - last'.amount
              usdt_after_symbol == IF s = "USDT" THEN Balance(accounts, t, "USDT") + signed
                                   ELSE Balance(accounts, t, "USDT")
          IN  /\ s # "USDT" => Balance(accounts', t, s) = Balance(accounts, t, s) + signed
              /\ Balance(accounts', t, "USDT") = usdt_after_symbol - signed * last'.price]_vars

\* a buy and a sell were applied to a non-USDT currency
C5_Witness ==
    /\ last.op = "record_trade"
    /\ last.ok
    /\ last.symbol # "USDT"
    /\ CurrencyOf(accounts, last.account, last.symbol).buy_history # <<>>
    /\ CurrencyOf(accounts, last.account, last.symbol).sell_history # <<>>

RECURSIVE IsolatedSum(_, _, _)
\* the sum in which a failed fetch contributes zero and the others are kept
IsolatedSum(cs, failing, ticker_price) ==
    IF cs = <<>> THEN 0
    ELSE (IF cs[1].symbol = "USDT" THEN cs[1].balance
          ELSE IF cs[1].symbol \in failing THEN 0
          ELSE cs[1].balance * ticker_price)
         + IsolatedSum(Tail(cs), failing, ticker_price)

\* C6: the total keeps every USDT balance and every balance*price whose fetch
\* succeeded; a currency whose fetch failed contributes zero.
C6_FetchFailureIsIsolated ==
    last.op = "get_total_balance_in_usdt" =>
        last.total = IsolatedSum(AllCurrencies(accounts), last.failing, last.price)

\* C7: a price update changes no balance and no buy/sell history and creates nothing;
\* for a known symbol it appends one observation and sets the latest price, for an
\* unknown account or symbol it changes nothing.
C7_PriceUpdateFrame ==
    [][last'.op = "update_currency_price" =>
          /\ Len(accounts') = Len(accounts)
          /\ \A i \in 1..Len(accounts) :
                /\ accounts'[i].account_type = accounts[i].account_type
                /\ Len(accounts'[i].currencies) = Len(accounts[i].currencies)
                /\ \A j \in 1..Len(accounts[i].currencies) :
                      LET c == accounts[i].currencies[j]
                          d == accounts'[i].currencies[j]
                      IN  /\ d.symbol = c.symbol
                          /\ d.balance = c.balance
                          /\ d.buy_history = c.buy_history
                          /\ d.sell_history = c.sell_history
                          /\ IF accounts[i].account_type = last'.account /\ c.symbol = last'.symbol
                             THEN /\ d.price_history = Append(c.price_history, last'.price)
                                  /\ d.current_price = Some(last'.price)
                             ELSE /\ d.price_history = c.price_history
                                  /\ d.current_price = c.current_price]_vars

\* a second price was recorded on a currency that holds a balance and a trade
C7_Witness ==
    /\ last.op = "update_currency_price"
    /\ HasCurrency(accounts, last.account, last.symbol)
    /\ Len(CurrencyOf(accounts, last.account, last.symbol).price_history) >= 2
    /\ CurrencyOf(accounts, last.account, last.symbol).buy_history # <<>>

\* the sum of a symbol's balances over the accounts of the wallet
TotalOf(w, s) ==
    LET RECURSIVE Total(_)
        Total(i) == IF i = 0 THEN 0
                    ELSE Account_get_currency_balance(w[i], s) + Total(i - 1)
    IN  Total(Len(w))

\* the conservation half of C26 alone
TransferConservesTotal ==
    [][(last'.op = "transfer_between_accounts" /\ last'.ok) =>
           TotalOf(accounts', last'.symbol) = TotalOf(accounts, last'.symbol)]_vars

\* C26: a successful transfer_between_accounts leaves the sum of the symbol's balances
\* over all accounts unchanged and leaves the destination balance >= 0 when it was
\* >= 0 before, also between an account and itself and for a zero or negative amount.
C26_TransferConservesAndKeepsDestination ==
    [][(last'.op = "transfer_between_accounts" /\ last'.ok) =>
           /\ TotalOf(accounts', last'.symbol) = TotalOf(accounts, last'.symbol)
           /\ Balance(accounts, last'.to, last'.symbol) >= 0 =>
                  Balance(accounts', last'.to, last'.symbol) >= 0]_vars

(***************************************************************************)
(* Price buffer and signal properties                                      *)
(***************************************************************************)
\* C8: should_buy returns no buy decision for a symbol whose buffer holds fewer than
\* PRICE_HISTORY_LENGTH samples.
C8_NoSignalBeforeBufferFull ==
    (last.op = "should_buy" /\ last.result # None) =>
        /\ last.symbol \in DOMAIN price_history
        /\ Len(price_history[last.symbol]) >= PRICE_HISTORY_LENGTH

\* should_buy answered None on a buffer one sample short of full whose samples,
\* taken as a full buffer, give a signal at that price
C8_Witness ==
    /\ last.op = "should_buy"
    /\ last.result = None
    /\ last.symbol \in DOMAIN price_history
    /\ Len(price_history[last.symbol]) = PRICE_HISTORY_LENGTH - 1
    /\ TradingBot_should_buy(price_history, PRICE_HISTORY_LENGTH - 1, last.symbol,
                             last.current_price).result # None

RECURSIVE SumOfSquares(_)
SumOfSquares(xs) == IF xs = <<>> THEN 0 ELSE xs[1] * xs[1] + SumOfSquares(Tail(xs))

\* current < mean and (mean - current)^2 < sample variance, for a buffer xs of n
\* prices with sum t and sum of squares q: the sample variance is
\* (q - t*t/n) / (n - 1), and both sides are multiplied by n*n*(n - 1)
DipWithinOneStdev(xs, current) ==
    LET n == Len(xs)
        t == Sum(xs)
        q == SumOfSquares(xs)
    IN  /\ n * current < t
        /\ (t - n * current) * (t - n * current) * (n - 1) < n * (n * q - t * t)

\* C9: with a full buffer should_buy returns the mean exactly when current < mean and
\* mean - current < sample standard deviation, and nothing otherwise; a buffer of
\* identical prices gives no signal; [100,102,98,101,99] signals at 99, not at 97.
C9_SignalIffDipWithinOneStdev ==
    (/\ last.op = "should_buy"
     /\ last.current_price # None
     /\ last.symbol \in DOMAIN price_history
     /\ Len(price_history[last.symbol]) = PRICE_HISTORY_LENGTH) =>
        LET xs == price_history[last.symbol]
            c == last.current_price[1]
        IN  /\ ~last.raised
            /\ last.result = IF DipWithinOneStdev(xs, c) THEN Some(<<Sum(xs), Len(xs)>>) ELSE None
            /\ (\A i \in 1..Len(xs) : xs[i] = xs[1]) => last.result = None
            /\ (xs = <<100, 102, 98, 101, 99>> /\ c = 99) => last.result = Some(<<500, 5>>)
            /\ (xs = <<100, 102, 98, 101, 99>> /\ c = 97) => last.result = None

\* the buffer [100,102,98,101,99] was evaluated at 99 and gave the mean 100
C9_Witness ==
    /\ last.op = "should_buy"
    /\ "BTC-USDT" \in DOMAIN price_history
    /\ price_history["BTC-USDT"] = <<100, 102, 98, 101, 99>>
    /\ last.current_price = Some(99)
    /\ last.result = Some(<<500, 5>>)

\* the last n elements of xs (all of xs when it is shorter)
LastN(xs, n) == IF Len(xs) <= n THEN xs ELSE SubSeq(xs, Len(xs) - n + 1, Len(xs))

\* C10: every buffer holds at most PRICE_HISTORY_LENGTH samples, and they are the
\* most recent prices appended for that symbol, in arrival order.
C10_BufferIsMostRecentPrices ==
    /\ DOMAIN pushed \subseteq DOMAIN price_history
    /\ \A symbol \in DOMAIN price_history :
          /\ Len(price_history[symbol]) <= PRICE_HISTORY_LENGTH
          /\ price_history[symbol] =
                 LastN(IF symbol \in DOMAIN pushed THEN pushed[symbol] ELSE <<>>, PRICE_HISTORY_LENGTH)

\* a full buffer received one more price and the sample it lost differs from the
\* one it gained
C10_Witness ==
    \E symbol \in DOMAIN pushed :
        /\ Len(pushed[symbol]) = PRICE_HISTORY_LENGTH + 1
        /\ pushed[symbol][1] # pushed[symbol][Len(pushed[symbol])]
        /\ pushed[symbol][1] # pushed[symbol][2]

(***************************************************************************)
(* Order placement properties                                              *)
(***************************************************************************)
\* C1: after any sequence of place_buy_order and place_sell_order calls the number of
\* orders in active_orders, summed over all symbols, never exceeds max_total_orders.
C1_TotalOrdersNeverExceedLimit ==
    TotalOrders(active_orders) <= max_total_orders

\* orders on two symbols fill the limit and a further placement was refused
C1_Witness ==
    /\ last.op \in {"place_buy_order", "place_sell_order"}
    /\ ~last.allowed
    /\ last.result = None
    /\ TotalOrders(active_orders) = max_total_orders
    /\ DOMAIN active_orders = BotSymbols

\* C12: can_place_order(symbol) is true exactly when the number of orders in
\* active_orders over all symbols is strictly less than max_total_orders; the result
\* is the same for every symbol, so it is false for every symbol once the total
\* equals max_total_orders.
C12_CanPlaceOrderIffBelowLimit ==
    last.op = "can_place_order" =>
        /\ last.allowed <=> (TotalOrders(active_orders) < max_total_orders)
        /\ \A s \in BotSymbols :
              TradingBot_can_place_order(active_orders, max_total_orders, s) = last.allowed
        /\ TotalOrders(active_orders) = max_total_orders => ~last.allowed

\* the limit is filled by the orders of one symbol and the other symbol is refused
C12_Witness ==
    /\ last.op = "can_place_order"
    /\ ~last.allowed
    /\ TotalOrders(active_orders) = max_total_orders
    /\ last.symbol \notin DOMAIN active_orders

\* C13: in simulation mode a place_buy_order whose preconditions hold, for amount_usdt
\* at limit_price, yields an order of size amount_usdt/limit_price with fee
\* size*limit_price*0.001 and leaves an entry in active_trades keyed by the order's
\* identifier (100 USDT at price 50: size 2, fee 0.1, one ActiveTrade).
C13_SimulatedBuyFills ==
    [][(/\ last'.op = "place_buy_order"
        /\ is_simulation
        /\ last'.allowed
        /\ last'.available # None
        /\ last'.price # 0
        /\ last'.wallet = "returns"
        /\ last'.amount <= last'.available[1]) =>
           /\ last'.result # None
           /\ last'.result[1].size * last'.price = last'.amount
           /\ last'.result[1].fee[1] * 1000 =
                  last'.result[1].size * last'.price * last'.result[1].fee[2]
           /\ last'.result[1].orderId \in DOMAIN active_trades'
           /\ (last'.amount = 100 /\ last'.price = 50) =>
                  /\ last'.result[1].size = 2
                  /\ last'.result[1].fee[1] * 10 = last'.result[1].fee[2]
                  /\ Cardinality(DOMAIN active_trades') = Cardinality(DOMAIN active_trades) + 1]_vars

\* C14: a placement that returns no order (refused, or failed in the exchange call, in
\* the simulated fill or while the response was applied) lets no exception reach the
\* caller and leaves the ledger, active_trades and active_orders as they were.
C14_FailedPlacementChangesNothing ==
    [][(last'.op \in {"place_buy_order", "place_sell_order"} /\ last'.result = None) =>
           /\ ~last'.raised
           /\ accounts' = accounts
           /\ active_trades' = active_trades
           /\ active_orders' = active_orders]_vars

\* C20: a buy placement that returns an order has registered an ActiveTrade under the
\* order's identifier, applied the fill to the trading account (record_trade buy, then
\* the price update) and appended the order to active_orders[symbol]: the symbol's
\* balance has grown by the filled size and its latest price is the fill price.
C20_SuccessfulBuyAppliesFill ==
    [][(last'.op = "place_buy_order" /\ last'.result # None) =>
           LET order == last'.result[1]
               symbol == last'.symbol
               size == last'.amount \div last'.price
           IN  /\ order.orderId \in DOMAIN active_trades'
               /\ symbol \in DOMAIN active_orders'
               /\ active_orders'[symbol] =
                      Append(IF symbol \in DOMAIN active_orders THEN active_orders[symbol] ELSE <<>>,
                             order)
               /\ Balance(accounts', "trading", symbol) = Balance(accounts, "trading", symbol) + size
               /\ HasCurrency(accounts', "trading", symbol)
               /\ CurrencyOf(accounts', "trading", symbol).current_price = Some(last'.price)]_vars

\* C21: a buy or sell whose precondition fails (the total of outstanding orders is not
\* below max_total_orders, or for a buy amount_usdt exceeds the available balance)
\* returns no order, calls neither the exchange nor the simulated fill, and leaves
\* active_trades, active_orders and the ledger unchanged.
C21_RefusedPlacementDoesNothing ==
    [][(/\ last'.op \in {"place_buy_order", "place_sell_order"}
        /\ \/ ~TradingBot_can_place_order(active_orders, max_total_orders, last'.symbol)
           \/ /\ last'.op = "place_buy_order"
              /\ last'.available # None
              /\ last'.amount > last'.available[1]) =>
           /\ last'.result = None
           /\ ~last'.called
           /\ ~last'.raised
           /\ active_trades' = active_trades
           /\ active_orders' = active_orders
           /\ accounts' = accounts]_vars

\* a buy was refused for its amount while an order is outstanding and the limit is
\* not reached
C21_Witness ==
    /\ last.op = "place_buy_order"
    /\ last.allowed
    /\ last.available = Some(0)
    /\ last.result = None
    /\ ~last.called
    /\ TotalOrders(active_orders) = 1

\* C22: no operation removes an entry from active_trades: the keys of active_trades
\* only grow, and a sell placement, successful or not, leaves active_trades unchanged.
C22_ActiveTradesNeverRemoved ==
    [][/\ \A k \in DOMAIN active_trades :
              k \in DOMAIN active_trades' /\ active_trades'[k] = active_trades[k]
       /\ last'.op = "place_sell_order" => active_trades' = active_trades]_vars

\* a sell was placed on a symbol that has an active trade
C22_Witness ==
    /\ last.op = "place_sell_order"
    /\ last.result # None
    /\ \E k \in DOMAIN active_trades : active_trades[k].symbol = last.symbol

\* C27: every key of active_trades is the identifier of an order present in
\* active_orders for the same symbol, also after a placement that failed part-way;
\* hence there are never more active trades than active orders.
C27_ActiveTradesHaveOrders ==
    /\ \A k \in DOMAIN active_trades :
          /\ active_trades[k].symbol \in DOMAIN active_orders
          /\ \E i \in 1..Len(active_orders[active_trades[k].symbol]) :
                active_orders[active_trades[k].symbol][i].orderId = k
    /\ Cardinality(DOMAIN active_trades) <= TotalOrders(active_orders)

\* C28: the total of outstanding orders never decreases; once can_place_order is
\* false it stays false for every symbol, and from then on no buy or sell is placed.
C28_OrderCountNeverDecreases ==
    [][/\ TotalOrders(active_orders') >= TotalOrders(active_orders)
       /\ \A symbol \in DOMAIN active_orders :
              /\ symbol \in DOMAIN active_orders'
              /\ Len(active_orders'[symbol]) >= Len(active_orders[symbol])
       /\ (\E s \in BotSymbols : ~TradingBot_can_place_order(active_orders, max_total_orders, s)) =>
              /\ \A s \in BotSymbols :
                     ~TradingBot_can_place_order(active_orders', max_total_orders, s)
              /\ active_orders' = active_orders
              /\ last'.op \in {"place_buy_order", "place_sell_order"} => last'.result = None]_vars

\* the limit of one order was reached by a sell and both later calls placed nothing
C28_Witness ==
    /\ budget = 0
    /\ max_total_orders = 1
    /\ TotalOrders(active_orders) = 1
    /\ DOMAIN active_trades = {}
    /\ last.op = "place_buy_order"
    /\ ~last.allowed

(***************************************************************************)
(* Status history properties                                               *)
(***************************************************************************)
\* C11: status_history never holds more than 120 snapshots, and it is always the most
\* recent snapshots in call order (snapshot k carries timestamp k): a call made at 120
\* appends the new snapshot and evicts exactly the oldest one.
C11_StatusHistoryIsLast120 ==
    /\ Len(status_history) <= 120
    /\ Len(status_history) = (IF status_seq <= 120 THEN status_seq ELSE 120)
    /\ \A i \in 1..Len(status_history) :
          status_history[i].timestamp = status_seq - Len(status_history) + i
    /\ (last.op = "get_current_status" /\ ~last.raised) =>
           status_history[Len(status_history)] = last.result[1]

\* the 121st snapshot was appended and the first one is gone
C11_Witness ==
    /\ last.op = "get_current_status"
    /\ ~last.raised
    /\ status_seq = 121
    /\ Len(status_history) = 120
    /\ status_history[1].timestamp = 2
    /\ status_history[120] = last.result[1]

(***************************************************************************)
(* Pricing and profit properties                                           *)
(***************************************************************************)
\* C15: calculate_target_sell_price(buy_price) equals
\* buy_price * (1 + profit_margin + maker_fee + taker_fee) for every buy price and
\* every configured margin and fee pair (rates in thousandths, so both sides are
\* multiplied by 1000).
C15_TargetSellPriceFormula ==
    last.op = "calculate_target_sell_price" =>
        last.result[1] * 1000 =
            last.result[2] * (last.buy_price * 1000 + last.buy_price * profit_margin
                              + last.buy_price * maker_fee + last.buy_price * taker_fee)

\* a target was computed under a margin and two different non-zero fees
C15_Witness ==
    /\ last.op = "calculate_target_sell_price"
    /\ last.buy_price = 250
    /\ profit_margin = 25
    /\ maker_fee = 1
    /\ taker_fee = 2
    /\ last.result[1] = 257 * last.result[2]

\* C16 (as stated): with profit margin 0.01, maker fee 0.001 and taker fee 0.001 the
\* target sell price computed for buy price 100 is 102.0.
C16_TargetFor100Is102 ==
    (/\ last.op = "calculate_target_sell_price"
     /\ last.buy_price = 100
     /\ profit_margin = 10
     /\ maker_fee = 1
     /\ taker_fee = 1) =>
        last.result[1] = 102 * last.result[2]

\* C16 (amended): with profit margin 0.01, maker fee 0.001 and taker fee 0.001 the
\* target sell price computed for buy price 100 is 100 * 1.012 = 101.2.
C16_TargetFor100Is101_2 ==
    (/\ last.op = "calculate_target_sell_price"
     /\ last.buy_price = 100
     /\ profit_margin = 10
     /\ maker_fee = 1
     /\ taker_fee = 1) =>
        last.result[1] * 10 = 1012 * last.result[2]

\* the target for buy price 100 was computed under margin 0.01 and fees 0.001, 0.001
C16_Witness ==
    /\ last.op = "calculate_target_sell_price"
    /\ last.buy_price = 100
    /\ profit_margin = 10
    /\ maker_fee = 1
    /\ taker_fee = 1
    /\ last.result = <<101200, 1000>>

\* C19: calculate_profit(buy_order, sell_order) returns
\* (sell dealFunds - sell fee) - buy dealFunds for every pair of orders; the buy-side
\* fee never changes the returned profit.
C19_ProfitIsProceedsLessCost ==
    last.op = "calculate_profit" =>
        /\ ~last.raised
        /\ last.result =
               Some((last.sell_order.dealFunds - last.sell_order.fee) - last.buy_order.dealFunds)
        /\ \A e \in ProfitBuyFees :
              TradingBot_calculate_profit([last.buy_order EXCEPT !.fee = e], last.sell_order).result
                  = last.result

\* the last call computed the profit of the round trip of size s bought at p
IsRoundTrip(p, s) ==
    /\ last.op = "calculate_profit"
    /\ last.buy_order = RoundTripBuy(p, s)
    /\ last.sell_order = RoundTripSell(p, s, profit_margin, maker_fee, taker_fee)

\* profit_margin * (s*p), in millionths of USDT
MarginOn(p, s) == profit_margin * s * p * (MoneyScale \div RateScale)

\* the first half of C25 alone: the profit calculate_profit returns meets the margin
ReturnedProfitMeetsMargin ==
    \A p \in RoundTripPrices, s \in RoundTripSizes :
        (IsRoundTrip(p, s) /\ maker_fee = 1 /\ taker_fee = 1) =>
            /\ ~last.raised
            /\ last.result[1] >= MarginOn(p, s)

\* C25: for a buy filled at price p and size s and its sell filled at
\* calculate_target_sell_price(p) for the same size, each fee being size*price*0.001
\* (and the configured maker and taker fee being that 0.001), the profit returned by
\* calculate_profit, and also that profit less the buy-side fee, is at least
\* profit_margin * (s*p).
C25_ProfitAfterFeesMeetsMargin ==
    \A p \in RoundTripPrices, s \in RoundTripSizes :
        (IsRoundTrip(p, s) /\ maker_fee = 1 /\ taker_fee = 1) =>
            /\ ~last.raised
            /\ last.result[1] >= MarginOn(p, s)
            /\ last.result[1] - last.buy_order.fee >= MarginOn(p, s)

(***************************************************************************)
(* Allocation properties                                                   *)
(***************************************************************************)
\* the allocation map gives every listed symbol the share tradable / n
EqualSplit(allocations, symbols, tradable) ==
    \A i \in 1..Len(symbols) :
        /\ symbols[i] \in DOMAIN allocations
        /\ allocations[symbols[i]][1] * Len(symbols) = tradable * allocations[symbols[i]][2]

\* C17: for n selected symbols and a positive tradable USDT amount, with no explicit
\* per-symbol weights configured, the allocation of each selected symbol returned by
\* get_user_allocations, and held in symbol_allocations after update_allocations, is
\* tradable * 1/n.
C17_AllocationIsEqualSplit ==
    (/\ last.op \in {"get_user_allocations", "update_allocations"}
     /\ last.tradable # None
     /\ last.symbols # <<>>
     /\ ~last.raised
     /\ last.tradable[1] > 0) =>
        IF last.op = "get_user_allocations"
        THEN EqualSplit(last.result[1], last.symbols, last.tradable[1])
        ELSE EqualSplit(symbol_allocations, last.symbols, last.tradable[1])

\* C18: get_user_allocations returns the empty map, without raising, whenever the
\* tradable USDT amount is <= 0 or the symbol list is empty; update_allocations on an
\* empty list completes without error and leaves symbol_allocations empty.
C18_NothingToTradeIsEmptyMap ==
    /\ (/\ last.op = "get_user_allocations"
        /\ last.tradable # None
        /\ (last.symbols = <<>> \/ last.tradable[1] <= 0)) =>
           /\ ~last.raised
           /\ last.result = Some(<<>>)
    /\ (/\ last.op = "update_allocations"
        /\ last.tradable # None
        /\ last.wallet = "returns"
        /\ last.symbols = <<>>) =>
           /\ ~last.raised
           /\ symbol_allocations = <<>>
           /\ currency_allocations = <<>>

\* a zero tradable amount over two symbols with weights gave the empty map
C18_Witness ==
    /\ last.op = "get_user_allocations"
    /\ last.tradable = Some(0)
    /\ Len(last.symbols) = 2
    /\ DOMAIN currency_allocations = BotSymbols
    /\ last.result = Some(<<>>)

(***************************************************************************)
(* Wallet creation properties                                              *)
(***************************************************************************)
\* what create_wallet does with the listing: the balances reported for the exchange's
\* trading account end in an account named "trade"
ListedBalancesAreHeldByTrade ==
    [][(last'.op = "create_wallet" /\ last'.listing # None) =>
           \A i \in 1..Len(last'.listing[1]) :
               last'.listing[1][i].type = "trade" =>
                   /\ HasCurrency(accounts', "trade", last'.listing[1][i].currency)
                   /\ Balance(accounts', "trade", last'.listing[1][i].currency)
                          = last'.listing[1][i].balance]_vars

\* C29: after create_wallet with a successful balance listing, the account "trading"
\* holds a currency for every symbol the exchange reported for its trading account,
\* with the reported balance, so that a record_trade on "trading" for such a symbol
\* is applied and not dropped.
C29_TradingAccountHoldsListedBalances ==
    [][(last'.op = "create_wallet" /\ last'.listing # None) =>
           \A i \in 1..Len(last'.listing[1]) :
               last'.listing[1][i].type = "trade" =>
                   /\ HasCurrency(accounts', "trading", last'.listing[1][i].currency)
                   /\ Balance(accounts', "trading", last'.listing[1][i].currency)
                          = last'.listing[1][i].balance
                   /\ Wallet_record_trade(accounts', "trading", last'.listing[1][i].currency,
                                          1, 2, "buy") # accounts']_vars

TraderStepsMakeProcessOrderResponse ==
    (last.op \in {"trader_update_wallet", "trader_append_order"} /\ threads.trader.pc = "idle") =>
        /\ active_trades = last.serial.trades
        /\ active_orders = last.serial.orders
        /\ accounts = last.serial.wallet

\* a get_current_status call during which the trading thread was not inside a
\* placement returns the bot's trades and order counts of one moment
SerialSnapshotIsOneMoment ==
    (last.op = "get_current_status" /\ last.error # "wallet" /\ ~last.overlap) =>
        /\ last.error = "none"
        /\ <<last.result[1].active_trades, last.result[1].active_orders>> \in threads.moments

\* C24: a status snapshot built by get_current_status while the trading thread places
\* orders is a copy of one consistent state: its active_trades and its per-symbol order
\* counts are those the bot had at one moment between two placements (never a trade
\* whose order is not counted), and the iteration over active_orders never meets a
\* dict that is being mutated.
C24_SnapshotIsOneConsistentState ==
    (last.op = "get_current_status" /\ last.error # "wallet") =>
        /\ last.error = "none"
        /\ <<last.result[1].active_trades, last.result[1].active_orders>> \in threads.moments

====
